---------------------------- MODULE Spec2Model ----------------------------
(***************************************************************************)
(* A model of the review-report pipeline: the CI-comment command           *)
(* (generate_zuul_comments.py), the HTML renderer                          *)
(* (render_html_from_json.py) and the standalone schema validator          *)
(* (validate_zuul_schema.py).                                              *)
(*                                                                         *)
(* Python values are tagged records [t, v]; a dict is a sequence of        *)
(* <<key, value>> pairs in insertion order; strings are TLA+ strings and   *)
(* are taken apart with Len, SubSeq and \o.                                 *)
(***************************************************************************)
EXTENDS Integers, Sequences, FiniteSets, TLC

VARIABLES
    cmd,          \* which script this run executes: "zuul", "html", "validate"
    args,         \* parsed command line
    file,         \* the input file: [exists, leading, value, trailing]
    pc,           \* position in main()
    raw_data,     \* result of the decoder
    review_data,  \* the review document after unwrapping
    result,       \* zuul_data / html_content / (is_valid, message)
    validated,    \* what the in-pipeline validator was called on and said
    emitted,      \* what was written to stdout or to the output file
    error,        \* the failure that ended the run, "" when none
    exit_code     \* process exit status, -1 while running

vars == <<cmd, args, file, pc, raw_data, review_data, result, validated,
          emitted, error, exit_code>>

---------------------------------------------------------------------------
(* Python values *)

JNull == [t |-> "null", v |-> 0]
JBool(b) == [t |-> "bool", v |-> b]
JInt(n) == [t |-> "int", v |-> n]
\* a float, kept in hundredths: JFloat(95) is 0.95
JFloat(h) == [t |-> "float", v |-> h]
JStr(s) == [t |-> "str", v |-> s]
JList(q) == [t |-> "list", v |-> q]
JDict(pairs) == [t |-> "dict", v |-> pairs]

\* the marker for "no value" in this model (never a Python value)
Absent == [t |-> "absent", v |-> 0]

IsDict(x) == x.t = "dict"
IsList(x) == x.t = "list"
IsStr(x) == x.t = "str"
\* isinstance(x, int): bool is a subclass of int
IsInt(x) == x.t \in {"int", "bool"}

\* 'k in d' for a dict d
Has(d, k) == \E i \in 1..Len(d.v) : d.v[i][1] = k

\* d.get(k, default) for a dict d
Get(d, k, default) ==
    IF Has(d, k)
    THEN d.v[CHOOSE i \in 1..Len(d.v) : d.v[i][1] = k][2]
    ELSE default

\* d[k] = val for a dict d: overwrite in place, or append a new key
Put(d, k, val) ==
    IF Has(d, k)
    THEN JDict([i \in 1..Len(d.v) |->
                  IF d.v[i][1] = k THEN <<k, val>> ELSE d.v[i]])
    ELSE JDict(Append(d.v, <<k, val>>))

Keys(d) == [i \in 1..Len(d.v) |-> d.v[i][1]]

\* Python truthiness ('if not x')
Truthy(x) ==
    CASE x.t = "null" -> FALSE
      [] x.t = "bool" -> x.v
      [] x.t \in {"int", "float"} -> x.v # 0
      [] x.t \in {"str", "list", "dict"} -> Len(x.v) > 0
      [] OTHER -> FALSE

---------------------------------------------------------------------------
(* Strings *)

Char(s, i) == SubSeq(s, i, i)

StartsWith(s, p) == Len(s) >= Len(p) /\ SubSeq(s, 1, Len(p)) = p

DigitChars == "0123456789"

\* 1-based position of the one-character string c in s, 0 when absent
IndexOf(s, c) ==
    IF \E i \in 1..Len(s) : Char(s, i) = c
    THEN CHOOSE i \in 1..Len(s) :
            /\ Char(s, i) = c
            /\ \A j \in 1..(i - 1) : Char(s, j) # c
    ELSE 0

IsDigit(c) == IndexOf(DigitChars, c) > 0

AllDigits(s) == Len(s) > 0 /\ \A i \in 1..Len(s) : IsDigit(Char(s, i))

RECURSIVE StrToInt(_)
\* int(s) for a string of decimal digits
StrToInt(s) ==
    IF Len(s) = 0 THEN 0
    ELSE 10 * StrToInt(SubSeq(s, 1, Len(s) - 1))
         + (IndexOf(DigitChars, Char(s, Len(s))) - 1)

RECURSIVE IntToStr(_)
\* str(n) for an integer n
IntToStr(n) ==
    IF n < 0 THEN "-" \o IntToStr(0 - n)
    ELSE IF n < 10 THEN Char(DigitChars, n + 1)
    ELSE IntToStr(n \div 10) \o Char(DigitChars, (n % 10) + 1)

RECURSIVE LStrip(_, _)
\* s.lstrip(c)
LStrip(s, c) ==
    IF Len(s) > 0 /\ Char(s, 1) = c THEN LStrip(Tail(s), c) ELSE s

RECURSIVE RStrip(_, _)
\* s.rstrip(c)
RStrip(s, c) ==
    IF Len(s) > 0 /\ Char(s, Len(s)) = c
    THEN RStrip(SubSeq(s, 1, Len(s) - 1), c)
    ELSE s

LowerAlpha == "abcdefghijklmnopqrstuvwxyz"
UpperAlpha == "ABCDEFGHIJKLMNOPQRSTUVWXYZ"

\* c, found at place k of 'from' (0: not found), mapped to its partner
MapChar(c, k, to) == IF k > 0 THEN Char(to, k) ELSE c

RECURSIVE MapRange(_, _, _, _, _)
\* s[lo..hi] with every character found in 'from' replaced by its partner in
\* 'to'; the range is halved to keep the evaluation shallow
MapRange(s, lo, hi, from, to) ==
    IF lo > hi THEN ""
    ELSE IF lo = hi
    THEN MapChar(Char(s, lo), IndexOf(from, Char(s, lo)), to)
    ELSE MapRange(s, lo, (lo + hi) \div 2, from, to)
         \o MapRange(s, ((lo + hi) \div 2) + 1, hi, from, to)

MapChars(s, from, to) == MapRange(s, 1, Len(s), from, to)

\* s.upper() and s.lower()
Upper(s) == MapChars(s, LowerAlpha, UpperAlpha)
Lower(s) == MapChars(s, UpperAlpha, LowerAlpha)

RECURSIVE Join(_, _)
\* sep.join(parts)
Join(parts, sep) ==
    IF Len(parts) = 0 THEN ""
    ELSE IF Len(parts) = 1 THEN parts[1]
    ELSE parts[1] \o sep \o Join(Tail(parts), sep)

\* s.split('/', 2): at most three parts
SplitSecond(rest, j) ==
    IF j = 0 THEN <<rest>>
    ELSE <<SubSeq(rest, 1, j - 1), SubSeq(rest, j + 1, Len(rest))>>

SplitRest(rest) == SplitSecond(rest, IndexOf(rest, "/"))

SplitFirst(s, i) ==
    IF i = 0 THEN <<s>>
    ELSE <<SubSeq(s, 1, i - 1)>> \o SplitRest(SubSeq(s, i + 1, Len(s)))

Split2(s) == SplitFirst(s, IndexOf(s, "/"))

---------------------------------------------------------------------------
(* Location Normalizer: generate_zuul_comments.py *)

zuul_prefixes ==
    << "/home/zuul/src/review.opendev.org/",
       "/home/zuul/src/opendev.org/",
       "/home/zuul/src/" >>

\* the index of the last prefix the path starts with, 0 when there is none
LastPrefix(file_path) ==
    IF \E k \in 1..Len(zuul_prefixes) : StartsWith(file_path, zuul_prefixes[k])
    THEN CHOOSE k \in 1..Len(zuul_prefixes) :
            /\ StartsWith(file_path, zuul_prefixes[k])
            /\ \A j \in (k + 1)..Len(zuul_prefixes) :
                  ~StartsWith(file_path, zuul_prefixes[j])
    ELSE 0

\* the index of the first prefix the path starts with, 0 when there is none
FirstPrefix(file_path) ==
    IF \E k \in 1..Len(zuul_prefixes) : StartsWith(file_path, zuul_prefixes[k])
    THEN CHOOSE k \in 1..Len(zuul_prefixes) :
            /\ StartsWith(file_path, zuul_prefixes[k])
            /\ \A j \in 1..(k - 1) : ~StartsWith(file_path, zuul_prefixes[j])
    ELSE 0

\* parts[2] if len(parts) >= 3, else the path the parts were split from
ThirdPartOr(parts, whole) == IF Len(parts) >= 3 THEN parts[3] ELSE whole

\* drop the org/project segments when a third part follows them
DropOrgProject(stripped) == ThirdPartOr(Split2(stripped), stripped)

\* the body of the for loop for the matching prefix: remove it, then the
\* org/project segments
StripZuulPrefix(file_path, prefix) ==
    DropOrgProject(SubSeq(file_path, Len(prefix) + 1, Len(file_path)))

\* the org/project segments dropped from relative paths as well
NormalizeWithRelativeDrop(file_path, k) ==
    IF k > 0 THEN StripZuulPrefix(file_path, zuul_prefixes[k])
    ELSE DropOrgProject(LStrip(file_path, "/"))

\* one leading '/' removed, and the org/project segments only after it
NormalizeWithPlainStrip(file_path, k) ==
    IF k > 0 THEN StripZuulPrefix(file_path, zuul_prefixes[k])
    ELSE IF StartsWith(file_path, "/")
    THEN ThirdPartOr(Split2(LStrip(file_path, "/")),
                     SubSeq(file_path, 2, Len(file_path)))
    ELSE file_path

\* the for/else of normalize_file_path, k the first matching prefix
NormalizeWith(file_path, k) ==
    IF k > 0 THEN StripZuulPrefix(file_path, zuul_prefixes[k])
    ELSE IF StartsWith(file_path, "/")
    THEN DropOrgProject(LStrip(file_path, "/"))
    ELSE file_path

normalize_file_path(file_path) == NormalizeWith(file_path, FirstPrefix(file_path))

\* '$' also matches just before one trailing newline
DollarCore(s) ==
    IF Len(s) > 0 /\ Char(s, Len(s)) = "\n"
    THEN SubSeq(s, 1, Len(s) - 1)
    ELSE s

\* (\d+)(?:-\d+)?$ on the text after the colon, h the place of its first
\* '-': the digits of group 2, or ""
LineGroupAt(rest, h) ==
    IF h = 0
    THEN (IF AllDigits(rest) THEN rest ELSE "")
    ELSE IF /\ AllDigits(SubSeq(rest, 1, h - 1))
            /\ AllDigits(SubSeq(rest, h + 1, Len(rest)))
         THEN SubSeq(rest, 1, h - 1)
         ELSE ""

LineGroup(rest) == LineGroupAt(rest, IndexOf(rest, "-"))

MatchGroups(g1, g2) == IF g2 = "" THEN <<>> ELSE <<g1, g2>>

\* ([^:]+): must end at the first colon, c, and hold a character
MatchAt(core, c) ==
    IF c <= 1 THEN <<>>
    ELSE MatchGroups(SubSeq(core, 1, c - 1),
                     LineGroup(SubSeq(core, c + 1, Len(core))))

MatchCore(core) == MatchAt(core, IndexOf(core, ":"))

\* re.match(r'^([^:]+):(\d+)(?:-\d+)?$', s): <<group 1, group 2>>, or <<>>
LocationMatch(s) == MatchCore(DollarCore(s))

\* the 'if match:' of parse_location
ParseMatched(m) ==
    IF m # <<>>
    THEN [exc |-> "",
          file_path |-> JStr(normalize_file_path(m[1])),
          line_number |-> JInt(StrToInt(m[2]))]
    ELSE [exc |-> "", file_path |-> JNull, line_number |-> JNull]

\* parse_location(location): [exc, file_path, line_number]; re.match raises
\* TypeError on anything that is not a string
parse_location(location) ==
    IF ~IsStr(location)
    THEN [exc |-> "TypeError", file_path |-> JNull, line_number |-> JNull]
    ELSE ParseMatched(LocationMatch(location.v))

---------------------------------------------------------------------------
(* Severity Mapper and message body: generate_zuul_comments.py *)

\* the severity table, were high to give a warning
severity_map_high_warning ==
    JDict(<< <<"critical", JStr("error")>>,
             <<"high", JStr("warning")>>,
             <<"warning", JStr("warning")>>,
             <<"suggestion", JStr("info")>> >>)

severity_map ==
    JDict(<< <<"critical", JStr("error")>>,
             <<"high", JStr("error")>>,
             <<"warning", JStr("warning")>>,
             <<"suggestion", JStr("info")>> >>)

map_severity_to_level(severity) ==
    Get(severity_map, Lower(severity), JStr("info")).v

\* str(x) / format(x, '') for the values a document field may hold
PyStr(x) ==
    CASE x.t = "str" -> x.v
      [] x.t = "int" -> IntToStr(x.v)
      [] x.t = "bool" -> (IF x.v THEN "True" ELSE "False")
      [] x.t = "null" -> "None"

\* hundredths to tenths, halves always rounded up
TenthsOfHalfUp(h) == (h + 5) \div 10

\* format(h / 100, '.1f') for a float of h >= 0 hundredths: the nearest tenth
\* of the binary double, whose ties fall as the double lies above or below
TenthsOf(h) ==
    IF (h % 10) > 5 \/ ((h % 10) = 5 /\ ((h \div 10) % 10) \in {0, 4, 5, 6, 7})
    THEN (h \div 10) + 1
    ELSE h \div 10

TenthsText(t) == IntToStr(t \div 10) \o "." \o IntToStr(t % 10)

\* f"{confidence:.1f}": [exc, s]
FormatConfidence(confidence) ==
    CASE confidence.t = "float" /\ confidence.v >= 0 ->
            [exc |-> "", s |-> TenthsText(TenthsOf(confidence.v))]
      [] confidence.t = "int" /\ confidence.v >= 0 ->
            [exc |-> "", s |-> IntToStr(confidence.v) \o ".0"]
      [] confidence.t = "bool" ->
            [exc |-> "", s |-> IF confidence.v THEN "1.0" ELSE "0.0"]
      [] confidence.t = "str" -> [exc |-> "ValueError", s |-> ""]
      [] confidence.t \in {"null", "list", "dict"} ->
            [exc |-> "TypeError", s |-> ""]

\* the parts one optional field adds: a labelled line, then a blank line
\* when 'blank'
FieldLine(issue, key, label, blank) ==
    IF Has(issue, key)
    THEN <<JStr(label \o PyStr(Get(issue, key, JNull)))>>
         \o (IF blank THEN <<JStr("")>> ELSE <<>>)
    ELSE <<>>

\* the parts a free-standing field adds: a heading line, then the raw value
FieldBlock(issue, key, heading) ==
    IF Has(issue, key)
    THEN <<JStr(heading), Get(issue, key, JNull)>>
    ELSE <<>>

\* the message parts after the severity line, were the recommendation shown
\* for every severity
SeverityPartsShared(issue, severity) ==
    IF severity \in {"critical", "high"}
    THEN FieldLine(issue, "risk", "**Risk**: ", TRUE)
         \o FieldLine(issue, "remediation_priority", "**Priority**: ", FALSE)
         \o FieldLine(issue, "why_matters", "**Why This Matters**: ", TRUE)
         \o FieldBlock(issue, "recommendation", "**Recommendation**:")
    ELSE IF severity = "warning"
    THEN FieldLine(issue, "impact", "**Impact**: ", TRUE)
         \o FieldBlock(issue, "suggestion", "**Suggestion**:")
         \o FieldBlock(issue, "recommendation", "**Recommendation**:")
    ELSE IF severity = "suggestion"
    THEN FieldLine(issue, "benefit", "**Benefit**: ", TRUE)
         \o FieldBlock(issue, "recommendation", "**Recommendation**:")
    ELSE <<>>

\* the message parts after the severity line
SeverityParts(issue, severity) ==
    IF severity \in {"critical", "high"}
    THEN FieldLine(issue, "risk", "**Risk**: ", TRUE)
         \o FieldLine(issue, "remediation_priority", "**Priority**: ", FALSE)
         \o FieldLine(issue, "why_matters", "**Why This Matters**: ", TRUE)
         \o FieldBlock(issue, "recommendation", "**Recommendation**:")
    ELSE IF severity = "warning"
    THEN FieldLine(issue, "impact", "**Impact**: ", TRUE)
         \o FieldBlock(issue, "suggestion", "**Suggestion**:")
    ELSE IF severity = "suggestion"
    THEN FieldLine(issue, "benefit", "**Benefit**: ", TRUE)
         \o FieldBlock(issue, "recommendation", "**Recommendation**:")
    ELSE <<>>

\* '\n'.join(parts): TypeError on a part that is not a string
JoinParts(parts) ==
    IF \E i \in 1..Len(parts) : ~IsStr(parts[i])
    THEN [exc |-> "TypeError", message |-> ""]
    ELSE [exc |-> "",
          message |-> Join([i \in 1..Len(parts) |-> parts[i].v], "\n")]

\* format_issue_message once the confidence is formatted
FormatWithConfidence(issue, severity, conf) ==
    IF conf.exc # "" THEN [exc |-> conf.exc, message |-> ""]
    ELSE JoinParts(
            <<Get(issue, "description", JStr("No description")), JStr(""),
              JStr("**Severity**: " \o Upper(severity)
                   \o " | **Confidence**: " \o conf.s),
              JStr("")>>
            \o SeverityParts(issue, severity))

\* format_issue_message(issue, severity): [exc, message]
format_issue_message(issue, severity) ==
    FormatWithConfidence(issue, severity,
        FormatConfidence(Get(issue, "confidence", JFloat(0))))

---------------------------------------------------------------------------
(* CI-Comment Renderer: generate_zuul_comments.py *)

\* the severity keys in the order extract_file_comments visits them
severity_keys == <<"critical", "high", "warnings", "suggestions">>

\* the comment record, were its level to come before its message
MakeCommentLevelFirst(line_number, message, level) ==
    JDict(<< <<"line", line_number>>,
             <<"level", JStr(level)>>,
             <<"message", JStr(message)>> >>)

\* the comment record, keys in the order the literal lists them
MakeComment(line_number, message, level) ==
    JDict(<< <<"line", line_number>>,
             <<"message", JStr(message)>>,
             <<"level", JStr(level)>> >>)

\* the append, were the new comment to go to the front of its list
AddCommentFront(file_comments, file_path, comment) ==
    Put(file_comments, file_path,
        JList(<<comment>> \o Get(file_comments, file_path, JList(<<>>)).v))

\* file_comments[file_path].append(comment), creating the list on first use
AddComment(file_comments, file_path, comment) ==
    Put(file_comments, file_path,
        JList(Append(Get(file_comments, file_path, JList(<<>>)).v, comment)))

\* lines 182-196: the comment of an issue whose location parsed
ExtractFormatted(fc, loc, m, level) ==
    IF m.exc # "" THEN [exc |-> m.exc, fc |-> fc]
    ELSE [exc |-> "",
          fc |-> AddComment(fc, loc.file_path.v,
                            MakeComment(loc.line_number, m.message, level))]

\* skip only what parse_location could not parse
ExtractParsedUnlessNone(fc, issue, severity_label, loc) ==
    IF loc.exc # "" THEN [exc |-> loc.exc, fc |-> fc]
    ELSE IF loc.file_path = JNull \/ loc.line_number = JNull
    THEN [exc |-> "", fc |-> fc]
    ELSE ExtractFormatted(fc, loc,
                          format_issue_message(issue, severity_label),
                          map_severity_to_level(severity_label))

\* lines 178-184: skip what parse_location left falsy
ExtractParsed(fc, issue, severity_label, loc) ==
    IF loc.exc # "" THEN [exc |-> loc.exc, fc |-> fc]
    ELSE IF ~Truthy(loc.file_path) \/ ~Truthy(loc.line_number)
    THEN [exc |-> "", fc |-> fc]
    ELSE ExtractFormatted(fc, loc,
                          format_issue_message(issue, severity_label),
                          map_severity_to_level(severity_label))

\* lines 174-178: skip an issue with no location
ExtractLocated(fc, issue, severity_label, location) ==
    IF ~Truthy(location) THEN [exc |-> "", fc |-> fc]
    ELSE ExtractParsed(fc, issue, severity_label, parse_location(location))

\* one iteration of the inner loop: [exc, fc]; .get on an issue that is not
\* a dict raises AttributeError
ExtractIssue(fc, issue, severity_label) ==
    IF ~IsDict(issue) THEN [exc |-> "AttributeError", fc |-> fc]
    ELSE ExtractLocated(fc, issue, severity_label,
                        Get(issue, "location", JStr("")))

RECURSIVE ExtractList(_, _, _, _)
\* the inner loop after the iteration that gave r
ContinueList(r, issues_list, i, severity_label) ==
    IF r.exc # "" THEN r
    ELSE ExtractList(r.fc, issues_list, i + 1, severity_label)

\* the inner loop from the i-th issue of one severity's list on: [exc, fc]
ExtractList(fc, issues_list, i, severity_label) ==
    IF i > Len(issues_list) THEN [exc |-> "", fc |-> fc]
    ELSE ContinueList(ExtractIssue(fc, issues_list[i], severity_label),
                      issues_list, i, severity_label)

\* 'for issue in <lst>': a list is walked; an empty string or dict yields
\* nothing; a non-empty one yields strings, on which .get fails; anything
\* else is not iterable
ExtractIterable(fc, lst, severity_label) ==
    CASE lst.t = "list" -> ExtractList(fc, lst.v, 1, severity_label)
      [] lst.t \in {"str", "dict"} ->
            [exc |-> IF Len(lst.v) = 0 THEN "" ELSE "AttributeError",
             fc |-> fc]
      [] OTHER -> [exc |-> "TypeError", fc |-> fc]

\* one severity read by subscription: a missing key raises
ExtractSeverityRequired(fc, issues, severity) ==
    IF ~Has(issues, severity) THEN [exc |-> "KeyError", fc |-> fc]
    ELSE ExtractIterable(fc, Get(issues, severity, JList(<<>>)),
                         RStrip(severity, "s"))

\* lines 170-173: one severity, its label the key without trailing 's'
ExtractSeverity(fc, issues, severity) ==
    ExtractIterable(fc, Get(issues, severity, JList(<<>>)),
                    RStrip(severity, "s"))

RECURSIVE ExtractFrom(_, _, _)
\* the outer loop after the severity that gave r
ContinueFrom(r, issues, k) ==
    IF r.exc # "" THEN r ELSE ExtractFrom(r.fc, issues, k + 1)

\* the outer loop from the k-th severity on: [exc, fc]
ExtractFrom(fc, issues, k) ==
    IF k > Len(severity_keys) THEN [exc |-> "", fc |-> fc]
    ELSE ContinueFrom(ExtractSeverity(fc, issues, severity_keys[k]), issues, k)

\* lines 165-169: .get on an issues value that is not a dict raises
ExtractIssues(issues) ==
    IF ~IsDict(issues) THEN [exc |-> "AttributeError", fc |-> JDict(<<>>)]
    ELSE ExtractFrom(JDict(<<>>), issues, 1)

\* extract_file_comments(review_data): [exc, fc]; .get on a value that is
\* not a dict raises AttributeError
extract_file_comments(data) ==
    IF ~IsDict(data) THEN [exc |-> "AttributeError", fc |-> JDict(<<>>)]
    ELSE ExtractIssues(Get(data, "issues", JDict(<<>>)))

\* the dict literal of generate_zuul_return_data
ZuulReturn(r) ==
    [exc |-> r.exc,
     data |-> JDict(<< <<"zuul", JDict(<< <<"file_comments", r.fc>> >>)>> >>)]

\* generate_zuul_return_data(review_data): [exc, data]
generate_zuul_return_data(data) == ZuulReturn(extract_file_comments(data))

---------------------------------------------------------------------------
(* Membership and subscription on arbitrary values *)

IsSubstring(k, s) ==
    \E i \in 0..(Len(s) - Len(k)) : SubSeq(s, i + 1, i + Len(k)) = k

\* "k in x": membership for a dict or list, substring for a string,
\* TypeError for anything else
PyIn(k, x) ==
    CASE x.t = "dict" -> [exc |-> "", b |-> Has(x, k)]
      [] x.t = "list" ->
            [exc |-> "", b |-> \E i \in 1..Len(x.v) : x.v[i] = JStr(k)]
      [] x.t = "str" -> [exc |-> "", b |-> IsSubstring(k, x.v)]
      [] OTHER -> [exc |-> "TypeError", b |-> FALSE]

\* x[k] for a string key k: [exc, val]
PyItem(x, k) ==
    IF x.t = "dict"
    THEN (IF Has(x, k) THEN [exc |-> "", val |-> Get(x, k, JNull)]
          ELSE [exc |-> "KeyError", val |-> JNull])
    ELSE [exc |-> "TypeError", val |-> JNull]

---------------------------------------------------------------------------
(* In-pipeline validator: generate_zuul_comments.py *)

ZuulLevels == {JStr("error"), JStr("warning"), JStr("info")}

\* lines 273-304, the checks on one comment: TRUE when all pass
ZuulCommentOK(comment) ==
    /\ IsDict(comment)
    /\ Has(comment, "line")
    /\ Has(comment, "message")
    /\ IsInt(Get(comment, "line", JNull))
    /\ IsStr(Get(comment, "message", JNull))
    /\ (Has(comment, "level") => Get(comment, "level", JNull) \in ZuulLevels)

\* lines 267-304, the loop over file_comments.items()
ZuulCommentsOK(file_comments) ==
    \A i \in 1..Len(file_comments.v) :
        /\ IsList(file_comments.v[i][2])
        /\ \A j \in 1..Len(file_comments.v[i][2].v) :
               ZuulCommentOK(file_comments.v[i][2].v[j])

\* lines 261-264, fc the result of data['zuul']['file_comments']
ZuulFileComments(fc) ==
    IF fc.exc # "" THEN [exc |-> fc.exc, ok |-> FALSE]
    ELSE IF ~IsDict(fc.val) THEN [exc |-> "", ok |-> FALSE]
    ELSE [exc |-> "", ok |-> ZuulCommentsOK(fc.val)]

\* lines 257-259, has the result of 'file_comments' in data['zuul']
ZuulHasFileComments(zuul, has) ==
    IF has.exc # "" THEN [exc |-> has.exc, ok |-> FALSE]
    ELSE IF ~has.b THEN [exc |-> "", ok |-> FALSE]
    ELSE ZuulFileComments(PyItem(zuul, "file_comments"))

\* zuul the result of data['zuul']
ZuulValue(zuul) ==
    IF zuul.exc # "" THEN [exc |-> zuul.exc, ok |-> FALSE]
    ELSE ZuulHasFileComments(zuul.val, PyIn("file_comments", zuul.val))

\* lines 253-255, has the result of 'zuul' in data
ZuulHasZuul(data, has) ==
    IF has.exc # "" THEN [exc |-> has.exc, ok |-> FALSE]
    ELSE IF ~has.b THEN [exc |-> "", ok |-> FALSE]
    ELSE ZuulValue(PyItem(data, "zuul"))

\* validate_zuul_schema(data): [exc, ok]
validate_zuul_schema(data) == ZuulHasZuul(data, PyIn("zuul", data))

---------------------------------------------------------------------------
(* JSON text: what json.loads and JSONDecoder.raw_decode make of a string *)

\* Offsets count from 0, as in the decoder. The texts read here hold objects,
\* arrays, strings with the escapes \" \\ \/ \n \t, integers, numbers with a
\* fraction (kept to two decimals), true, false and null.

\* s[i:i+1]
At(s, i) == IF i >= 0 /\ i < Len(s) THEN SubSeq(s, i + 1, i + 1) ELSE ""

Whitespace == {" ", "\t", "\n", "\r"}

RECURSIVE SkipWs(_, _)
\* the first offset from i on that holds no white space
SkipWs(s, i) == IF At(s, i) \in Whitespace THEN SkipWs(s, i + 1) ELSE i

\* s[idx:idx+len(word)] == word
StartsAt(s, idx, word) ==
    Len(s) >= idx + Len(word) /\ SubSeq(s, idx + 1, idx + Len(word)) = word

\* what a scan gives: a value and the offset after it, StopIteration(pos),
\* or JSONDecodeError(msg, doc, pos)
ScanOk(val, end) ==
    [exc |-> "", msg |-> "", pos |-> 0, val |-> val, end |-> end]
ScanStop(idx) ==
    [exc |-> "StopIteration", msg |-> "", pos |-> idx, val |-> JNull, end |-> 0]
ScanError(msg, pos) ==
    [exc |-> "JSONDecodeError", msg |-> msg, pos |-> pos, val |-> JNull,
     end |-> 0]

\* the character an escape stands for, "" when there is no such escape
Unescape(c) ==
    CASE c = "\"" -> "\""
      [] c = "\\" -> "\\"
      [] c = "/" -> "/"
      [] c = "n" -> "\n"
      [] c = "t" -> "\t"
      [] OTHER -> ""

RECURSIVE ScanChars(_, _, _, _)
\* the body of a string literal from offset i on, 'begin' the offset of its
\* opening quote and acc the characters read so far
ScanChars(s, begin, i, acc) ==
    IF i >= Len(s)
    THEN ScanError("Unterminated string starting at", begin)
    ELSE IF At(s, i) = "\"" THEN ScanOk(JStr(acc), i + 1)
    ELSE IF At(s, i) = "\\"
    THEN (IF i + 1 >= Len(s)
          THEN ScanError("Unterminated string starting at", begin)
          ELSE IF Unescape(At(s, i + 1)) = ""
          THEN ScanError("Invalid \\escape", i)
          ELSE ScanChars(s, begin, i + 2, acc \o Unescape(At(s, i + 1))))
    ELSE IF At(s, i) \in {"\n", "\t", "\r"}
    THEN ScanError("Invalid control character at", i)
    ELSE ScanChars(s, begin, i + 1, acc \o At(s, i))

\* scanstring(s, end), end the offset after the opening quote
scanstring(s, end) == ScanChars(s, end - 1, end, "")

RECURSIVE DigitsEnd(_, _)
\* the first offset from i on that holds no digit
DigitsEnd(s, i) == IF IsDigit(At(s, i)) THEN DigitsEnd(s, i + 1) ELSE i

\* the hundredths a fraction's digits stand for
Hundredths(d) ==
    IF Len(d) = 1 THEN 10 * StrToInt(d) ELSE StrToInt(SubSeq(d, 1, 2))

Signed(neg, n) == IF neg THEN 0 - n ELSE n

\* the number whose integer digits are s[i:j] and fraction digits s[j+1:k]
NumberFrac(s, neg, i, j, k) ==
    ScanOk(JFloat(Signed(neg, 100 * StrToInt(SubSeq(s, i + 1, j))
                               + Hundredths(SubSeq(s, j + 2, k)))),
           k)

\* the number whose integer digits are s[i:j]
NumberInt(s, neg, i, j) ==
    IF At(s, j) = "." /\ IsDigit(At(s, j + 1))
    THEN NumberFrac(s, neg, i, j, DigitsEnd(s, j + 1))
    ELSE ScanOk(JInt(Signed(neg, StrToInt(SubSeq(s, i + 1, j)))), j)

\* NUMBER_RE at idx, its digits starting at i: (-?(?:0|[1-9]\d*))(\.\d+)?
NumberAt(s, idx, neg, i) ==
    IF ~IsDigit(At(s, i)) THEN ScanStop(idx)
    ELSE NumberInt(s, neg, i, IF At(s, i) = "0" THEN i + 1 ELSE DigitsEnd(s, i))

RECURSIVE scan_once(_, _)
RECURSIVE ObjectKey(_, _, _)
RECURSIVE ArrayItem(_, _, _)

\* JSONObject after a pair, e the offset of the next character
ObjectNext(s, e, pairs) ==
    IF At(s, e) = "}" THEN ScanOk(pairs, e + 1)
    ELSE IF At(s, e) # "," THEN ScanError("Expecting ',' delimiter", e)
    ELSE ObjectKey(s, SkipWs(s, e + 1), pairs)

\* JSONObject once the value of key k is scanned
ObjectValue(s, value, k, pairs) ==
    IF value.exc = "StopIteration" THEN ScanError("Expecting value", value.pos)
    ELSE IF value.exc # "" THEN value
    ELSE ObjectNext(s, SkipWs(s, value.end), Put(pairs, k, value.val))

\* JSONObject after the key k, e the offset of the next character
ObjectColon(s, e, k, pairs) ==
    IF At(s, e) # ":" THEN ScanError("Expecting ':' delimiter", e)
    ELSE ObjectValue(s, scan_once(s, SkipWs(s, e + 1)), k, pairs)

\* JSONObject once a key is scanned
ObjectPair(s, key, pairs) ==
    IF key.exc # "" THEN key
    ELSE ObjectColon(s, SkipWs(s, key.end), key.val.v, pairs)

\* JSONObject where a key must start, at offset e
ObjectKey(s, e, pairs) ==
    IF At(s, e) # "\""
    THEN ScanError("Expecting property name enclosed in double quotes", e)
    ELSE ObjectPair(s, scanstring(s, e + 1), pairs)

\* JSONObject((s, end)), e the first offset after the brace that holds no
\* white space
JSONObject(s, e) ==
    IF At(s, e) = "}" THEN ScanOk(JDict(<<>>), e + 1)
    ELSE ObjectKey(s, e, JDict(<<>>))

\* JSONArray after an item, e the offset of the next character
ArrayNext(s, e, values) ==
    IF At(s, e) = "]" THEN ScanOk(JList(values), e + 1)
    ELSE IF At(s, e) # "," THEN ScanError("Expecting ',' delimiter", e)
    ELSE ArrayItem(s, scan_once(s, SkipWs(s, e + 1)), values)

\* JSONArray once an item is scanned
ArrayItem(s, value, values) ==
    IF value.exc = "StopIteration" THEN ScanError("Expecting value", value.pos)
    ELSE IF value.exc # "" THEN value
    ELSE ArrayNext(s, SkipWs(s, value.end), Append(values, value.val))

\* JSONArray((s, end)), e the first offset after the bracket that holds no
\* white space
JSONArray(s, e) ==
    IF At(s, e) = "]" THEN ScanOk(JList(<<>>), e + 1)
    ELSE ArrayItem(s, scan_once(s, e), <<>>)

\* scan_once(string, idx): one value starting exactly at idx
scan_once(s, idx) ==
    CASE At(s, idx) = "\"" -> scanstring(s, idx + 1)
      [] At(s, idx) = "{" -> JSONObject(s, SkipWs(s, idx + 1))
      [] At(s, idx) = "[" -> JSONArray(s, SkipWs(s, idx + 1))
      [] StartsAt(s, idx, "null") -> ScanOk(JNull, idx + 4)
      [] StartsAt(s, idx, "true") -> ScanOk(JBool(TRUE), idx + 4)
      [] StartsAt(s, idx, "false") -> ScanOk(JBool(FALSE), idx + 5)
      [] At(s, idx) = "-" -> NumberAt(s, idx, TRUE, idx + 1)
      [] OTHER -> NumberAt(s, idx, FALSE, idx)

\* the except StopIteration of raw_decode
StopToError(r) ==
    IF r.exc = "StopIteration" THEN ScanError("Expecting value", r.pos) ELSE r

\* JSONDecoder.raw_decode(s, idx)
RawDecodeAt(s, idx) == StopToError(scan_once(s, idx))

\* the summary of a text the decoder model works on: whether white space
\* comes first, the value that follows it (Absent when none does), whether
\* anything but white space follows the value, and what JSONDecoder.decode
\* complains of, and where: a missing value, or the extra data
Summarize(s, r) ==
    [exists |-> TRUE,
     leading |-> SkipWs(s, 0) > 0,
     value |-> IF r.exc = "" THEN r.val ELSE Absent,
     trailing |-> r.exc = "" /\ SkipWs(s, r.end) # Len(s),
     msg |-> IF r.exc # "" THEN r.msg
             ELSE IF SkipWs(s, r.end) # Len(s) THEN "Extra data" ELSE "",
     pos |-> IF r.exc # "" THEN r.pos
             ELSE IF SkipWs(s, r.end) # Len(s) THEN SkipWs(s, r.end) ELSE 0]

FileOfText(s) == Summarize(s, RawDecodeAt(s, SkipWs(s, 0)))

---------------------------------------------------------------------------
(* Tolerant Decoder: generate_zuul_comments.py *)

\* The input file is [exists, leading, value, trailing, msg, pos]: whether it
\* exists, whether white space precedes the first JSON value, that value
\* (Absent when the text holds none there), whether text follows the value,
\* and the complaint of a decoder that reads the whole text, with its offset.

\* what a decoding call gives: the value, or the exception with its msg, pos
Decoded(data) == [exc |-> "", data |-> data, msg |-> "", pos |-> 0]
DecodeError(exc, msg, pos) ==
    [exc |-> exc, data |-> JNull, msg |-> msg, pos |-> pos]

\* json.loads(content): the whole text must be one value, white space aside
json_loads(f) ==
    IF f.value = Absent THEN DecodeError("JSONDecodeError", f.msg, f.pos)
    ELSE IF f.trailing THEN DecodeError("JSONDecodeError", f.msg, f.pos)
    ELSE Decoded(f.value)

\* JSONDecoder().raw_decode(content): the value must start at offset 0
raw_decode(f) ==
    IF f.leading THEN DecodeError("JSONDecodeError", "Expecting value", 0)
    ELSE IF f.value = Absent THEN DecodeError("JSONDecodeError", f.msg, f.pos)
    ELSE Decoded(f.value)

\* lines 356-364: the second error is raised again with a longer message and
\* the same position
Reraised(e) ==
    IF e.exc = "" THEN e
    ELSE DecodeError("JSONDecodeError",
                     "No valid JSON found in file: " \o e.msg, e.pos)

\* the fallback, were the first error to be raised instead
LoadAfterNoFallback(f, first) ==
    IF first.exc = "" THEN first ELSE Reraised(first)

\* lines 348-364, first the result of the standard parse
LoadAfter(f, first) ==
    IF first.exc = "" THEN first ELSE Reraised(raw_decode(f))

\* load_json_with_trailing_text(filepath): [exc, data, msg, pos]
load_json_with_trailing_text(f) ==
    IF ~f.exists THEN DecodeError("FileNotFoundError", "", 0)
    ELSE LoadAfter(f, json_loads(f))

\* isinstance(data['structured_output'], dict) = want
StructuredItemIs(item, want) ==
    IF item.exc # "" THEN [exc |-> item.exc, b |-> FALSE]
    ELSE [exc |-> "", b |-> (IsDict(item.val) = want)]

StructuredHas(data, has, want) ==
    IF has.exc # "" THEN [exc |-> has.exc, b |-> FALSE]
    ELSE IF ~has.b THEN [exc |-> "", b |-> FALSE]
    ELSE StructuredItemIs(PyItem(data, "structured_output"), want)

\* 'structured_output' in data and isinstance(data['structured_output'], T),
\* T being dict ('want') or not dict: [exc, b]
StructuredOutputIs(data, want) ==
    StructuredHas(data, PyIn("structured_output", data), want)

\* the if of extract_review_data
Unwrap(data, wrapped) ==
    IF wrapped.exc # "" THEN [exc |-> wrapped.exc, data |-> JNull]
    ELSE IF wrapped.b
    THEN [exc |-> "", data |-> Get(data, "structured_output", JNull)]
    ELSE [exc |-> "", data |-> data]

\* extract_review_data(data): [exc, data]
extract_review_data(data) == Unwrap(data, StructuredOutputIs(data, TRUE))

\* a wrapper-shape check that lets every wrapper through
WrapperShapeErrorNever(data) == FALSE

\* a wrapper-shape check that stops the run for a null only
WrapperShapeErrorNullOnly(data) ==
    IsDict(data) /\ Get(data, "structured_output", JBool(TRUE)) = JNull

\* the wrapper-shape check of main(): TRUE when the run must stop
WrapperShapeError(data) == StructuredOutputIs(data, FALSE).b

---------------------------------------------------------------------------
(* json.dumps(obj, indent=2) *)

RECURSIVE Spaces(_)
Spaces(n) == IF n = 0 THEN "" ELSE " " \o Spaces(n - 1)

\* one character of the body of a JSON string literal
JsonEscapeChar(c) ==
    CASE c = "\"" -> "\\\""
      [] c = "\\" -> "\\\\"
      [] c = "\n" -> "\\n"
      [] OTHER -> c

RECURSIVE JsonEscapeRange(_, _, _)
JsonEscapeRange(s, lo, hi) ==
    IF lo > hi THEN ""
    ELSE IF lo = hi THEN JsonEscapeChar(Char(s, lo))
    ELSE JsonEscapeRange(s, lo, (lo + hi) \div 2)
         \o JsonEscapeRange(s, ((lo + hi) \div 2) + 1, hi)

\* the body of a JSON string literal
JsonEscape(s) == JsonEscapeRange(s, 1, Len(s))

\* float.__repr__ for a float of h >= 0 hundredths
FloatRepr(h) ==
    IntToStr(h \div 100) \o "."
    \o (IF h % 10 = 0 THEN IntToStr((h % 100) \div 10)
        ELSE IntToStr((h % 100) \div 10) \o IntToStr(h % 10))

RECURSIVE JsonDumps(_, _)
\* the items of a list or dict, one per line at the inner indent
JsonItems(x, level) ==
    Join([i \in 1..Len(x.v) |->
            Spaces(2 * (level + 1))
            \o (IF x.t = "dict"
                THEN "\"" \o JsonEscape(x.v[i][1]) \o "\": "
                     \o JsonDumps(x.v[i][2], level + 1)
                ELSE JsonDumps(x.v[i], level + 1))],
         ",\n")

\* the text of x, nested 'level' deep
JsonDumps(x, level) ==
    CASE x.t = "null" -> "null"
      [] x.t = "bool" -> (IF x.v THEN "true" ELSE "false")
      [] x.t = "int" -> IntToStr(x.v)
      [] x.t = "float" -> FloatRepr(x.v)
      [] x.t = "str" -> "\"" \o JsonEscape(x.v) \o "\""
      [] x.t = "list" ->
            IF Len(x.v) = 0 THEN "[]"
            ELSE "[\n" \o JsonItems(x, level) \o "\n" \o Spaces(2 * level) \o "]"
      [] x.t = "dict" ->
            IF Len(x.v) = 0 THEN "{}"
            ELSE "{\n" \o JsonItems(x, level) \o "\n" \o Spaces(2 * level) \o "}"

json_dumps(x) == JsonDumps(x, 0)

---------------------------------------------------------------------------
(* HTML Renderer: render_html_from_json.py *)

\* The HTML text is kept as the sequence of the pieces it is concatenated
\* from: the template's own text (k = "lit") and the interpolated values
\* (k = "val", raw the value interpolated and s the text it contributes).
Lit(s) == [k |-> "lit", s |-> s, raw |-> Absent]

RECURSIVE ReplaceRange(_, _, _, _, _)
\* s[lo..hi] with every character c replaced by the text r
ReplaceRange(s, lo, hi, c, r) ==
    IF lo > hi THEN ""
    ELSE IF lo = hi THEN (IF Char(s, lo) = c THEN r ELSE Char(s, lo))
    ELSE ReplaceRange(s, lo, (lo + hi) \div 2, c, r)
         \o ReplaceRange(s, ((lo + hi) \div 2) + 1, hi, c, r)

\* s.replace(c, r) for a one-character c
Replace(s, c, r) == ReplaceRange(s, 1, Len(s), c, r)

\* the five replacements with '&' last
escape_html_amp_last(text) ==
    Replace(Replace(Replace(Replace(Replace(PyStr(text),
        "<", "&lt;"), ">", "&gt;"), "\"", "&quot;"), "'", "&#39;"),
        "&", "&amp;")

\* escape_html(text): str() of anything that is not a string, then the five
\* replacements, '&' first
escape_html(text) ==
    Replace(Replace(Replace(Replace(Replace(PyStr(text),
        "&", "&amp;"), "<", "&lt;"), ">", "&gt;"), "\"", "&quot;"),
        "'", "&#39;")

\* {escape_html(x)} in an f-string
Esc(x) == [k |-> "val", s |-> escape_html(x), raw |-> x]

\* {x} in an f-string: format(x, ''), which is str(x)
Raw(x) == [k |-> "val", s |-> PyStr(x), raw |-> x]

\* {x:.1f} in an f-string, text the formatted number
Fmt(x, text) == [k |-> "val", s |-> text, raw |-> x]

\* a rendering that returned the pieces 'html', or raised
HtmlOk(html) == [exc |-> "", html |-> html]
HtmlRaise(exc) == [exc |-> exc, html |-> <<>>]

\* a, then b: the first exception wins, else the two results in a row
HtmlThen(a, b) ==
    IF a.exc # "" THEN a
    ELSE IF b.exc # "" THEN b
    ELSE HtmlOk(a.html \o b.html)

RECURSIVE JoinFrom(_, _, _)
\* sep.join(parts[i..]), each part a sequence of pieces
JoinFrom(parts, i, sep) ==
    IF i > Len(parts) THEN <<>>
    ELSE IF i = Len(parts) THEN parts[i]
    ELSE parts[i] \o <<Lit(sep)>> \o JoinFrom(parts, i + 1, sep)

\* sep.join(r.html) when r did not raise
JoinResult(r, sep) ==
    IF r.exc # "" THEN r ELSE HtmlOk(JoinFrom(r.html, 1, sep))

\* the style sheet the template embeds, cut after its first rule
CSS_STYLES ==
    "\n/* Base Styles */\n* {\n    margin: 0;\n    padding: 0;\n"
    \o "    box-sizing: border-box;\n}\n"

render_context_section(context) ==
    IF ~IsDict(context) THEN HtmlRaise("AttributeError")
    ELSE HtmlOk(
        << Lit("<section role=\"region\" aria-label=\"Review context\">\n"
               \o "<h2>Context</h2>\n<ul>\n<li><strong>Change</strong>: "),
           Esc(Get(context, "change", JStr("N/A"))),
           Lit("</li>\n<li><strong>Scope</strong>: "),
           Esc(Get(context, "scope", JStr("N/A"))),
           Lit("</li>\n<li><strong>Impact</strong>: "),
           Esc(Get(context, "impact", JStr("N/A"))),
           Lit("</li>\n</ul>\n</section>\n") >>)

\* one stat-item of the statistics section: the number x, twice
StatItem(class, x, what, label) ==
    << Lit("    <div class=\"stat-item" \o class \o "\">\n"
           \o "        <div class=\"stat-number\" aria-label=\""),
       Raw(x),
       Lit(" " \o what \o "\">"),
       Raw(x),
       Lit("</div>\n        <div class=\"stat-label\">" \o label
           \o "</div>\n    </div>\n") >>

render_statistics_section(statistics) ==
    IF ~IsDict(statistics) THEN HtmlRaise("AttributeError")
    ELSE HtmlOk(
        << Lit("<div class=\"summary-stats\">\n<div class=\"stats-container\" "
               \o "role=\"region\" aria-label=\"Summary statistics\">\n") >>
        \o StatItem(" stat-critical", Get(statistics, "critical", JInt(0)),
                    "critical issues", "Critical")
        \o StatItem(" stat-high", Get(statistics, "high", JInt(0)),
                    "high issues", "High")
        \o StatItem(" stat-warning", Get(statistics, "warnings", JInt(0)),
                    "warnings", "Warnings")
        \o StatItem(" stat-suggestion", Get(statistics, "suggestions", JInt(0)),
                    "suggestions", "Suggestions")
        \o StatItem("", Get(statistics, "total", JInt(0)),
                    "total findings", "Total")
        \o << Lit("</div>\n</div>\n") >>)

\* badge_map.get(severity, ...): the icon (named, not drawn) and the label
BadgeIcon(severity) ==
    CASE severity = "critical" -> "(no entry)"
      [] severity = "high" -> "(red circle)"
      [] severity = "warning" -> "(warning sign)"
      [] severity = "suggestion" -> "(information)"
      [] OTHER -> "(bullet)"

BadgeLabel(severity) == Upper(severity)

\* one optional line of the details: present when the issue has the key
DetailLine(issue, key, label) ==
    IF Has(issue, key)
    THEN << << Lit("<p><strong>" \o label \o "</strong>: "),
               Esc(Get(issue, key, JNull)),
               Lit("</p>") >> >>
    ELSE <<>>

\* details_parts of render_issue_card
DetailsParts(issue, severity) ==
    << << Lit("<p><strong>Location</strong>: <code>"),
          Esc(Get(issue, "location", JStr("Unknown"))),
          Lit("</code></p>") >> >>
    \o (IF severity \in {"critical", "high"}
        THEN DetailLine(issue, "risk", "Risk")
             \o DetailLine(issue, "remediation_priority", "Remediation Priority")
             \o DetailLine(issue, "why_matters", "Why This Matters")
             \o DetailLine(issue, "recommendation", "Recommendation")
        ELSE IF severity = "warning"
        THEN DetailLine(issue, "impact", "Impact")
             \o DetailLine(issue, "suggestion", "Suggestion")
        ELSE IF severity = "suggestion"
        THEN DetailLine(issue, "benefit", "Benefit")
             \o DetailLine(issue, "recommendation", "Recommendation")
        ELSE <<>>)

\* the f-string render_issue_card returns, conf the formatted confidence
CardWithConfidence(issue, severity, number, total, conf) ==
    IF conf.exc # "" THEN HtmlRaise(conf.exc)
    ELSE HtmlOk(
        << Lit("<details class=\"issue-card " \o severity \o "\" open>\n"
               \o "    <summary class=\"issue-summary\">\n"
               \o "        <span class=\"severity-badge severity-" \o severity
               \o "\">\n            <span class=\"severity-icon\" "
               \o "aria-hidden=\"true\">" \o BadgeIcon(severity) \o "</span>\n"
               \o "            " \o BadgeLabel(severity) \o "\n        </span>\n"
               \o "        <span class=\"issue-number\">" \o IntToStr(number)
               \o " of " \o IntToStr(total) \o "</span>\n"
               \o "        <span class=\"issue-description\">"),
           Esc(Get(issue, "description", JStr("No description"))),
           Lit("</span>\n        <span class=\"confidence\">Confidence: "),
           Fmt(Get(issue, "confidence", JFloat(0)), conf.s),
           Lit("</span>\n    </summary>\n    <div class=\"issue-details\">\n"
               \o "        ") >>
        \o JoinFrom(DetailsParts(issue, severity), 1, "\n")
        \o << Lit("\n    </div>\n</details>\n") >>)

\* render_issue_card(issue, severity, number, total); .get on an issue that
\* is not a dict raises AttributeError
render_issue_card(issue, severity, number, total) ==
    IF ~IsDict(issue) THEN HtmlRaise("AttributeError")
    ELSE CardWithConfidence(issue, severity, number, total,
                            FormatConfidence(Get(issue, "confidence", JFloat(0))))

\* html_parts.append(r): the rendering r as one part
AsPart(r) == IF r.exc # "" THEN r ELSE HtmlOk(<<r.html>>)

RECURSIVE CardPartsLocated(_, _, _)
\* the enumerate loop, were it to pass over the issues without a location
CardPartsLocated(lst, idx, severity) ==
    IF idx > Len(lst) THEN HtmlOk(<<>>)
    ELSE IF IsDict(lst[idx]) /\ ~Has(lst[idx], "location")
    THEN CardPartsLocated(lst, idx + 1, severity)
    ELSE HtmlThen(AsPart(render_issue_card(lst[idx], severity, idx, Len(lst))),
                  CardPartsLocated(lst, idx + 1, severity))

RECURSIVE CardParts(_, _, _)
\* the enumerate loop from the idx-th issue on: one part per card
CardParts(lst, idx, severity) ==
    IF idx > Len(lst) THEN HtmlOk(<<>>)
    ELSE HtmlThen(AsPart(render_issue_card(lst[idx], severity, idx, Len(lst))),
                  CardParts(lst, idx + 1, severity))

\* 'for idx, issue in enumerate(lst, 1)': a list is walked; a non-empty
\* string or dict yields strings, on which .get fails; anything else is not
\* iterable
CardsOf(lst, severity) ==
    CASE lst.t = "list" -> CardParts(lst.v, 1, severity)
      [] lst.t \in {"str", "dict"} -> HtmlRaise("AttributeError")
      [] OTHER -> HtmlRaise("TypeError")

\* the parts of one severity, were an empty list to add nothing
SeverityBlockSkipEmpty(lst, severity, aria, title) ==
    IF Truthy(lst)
    THEN HtmlThen(
            HtmlThen(
                HtmlOk(<< <<Lit("<section role=\"region\" aria-label=\""
                              \o aria \o "\">")>>,
                          <<Lit("<h2>" \o title \o "</h2>")>> >>),
                CardsOf(lst, severity)),
            HtmlOk(<< <<Lit("</section>")>> >>))
    ELSE HtmlOk(<<>>)

\* the parts one severity adds to html_parts, lst its list
SeverityBlock(lst, severity, aria, title) ==
    IF Truthy(lst)
    THEN HtmlThen(
            HtmlThen(
                HtmlOk(<< <<Lit("<section role=\"region\" aria-label=\""
                              \o aria \o "\">")>>,
                          <<Lit("<h2>" \o title \o "</h2>")>> >>),
                CardsOf(lst, severity)),
            HtmlOk(<< <<Lit("</section>")>> >>))
    ELSE HtmlOk(<< <<Lit("<h2>" \o title \o "</h2><p>None found.</p>")>> >>)

\* render_all_issues(issues): the four severities in turn, joined by '\n'
render_all_issues(issues) ==
    IF ~IsDict(issues) THEN HtmlRaise("AttributeError")
    ELSE JoinResult(
            HtmlThen(
                HtmlThen(
                    HtmlThen(
                        SeverityBlock(Get(issues, "critical", JList(<<>>)),
                                      "critical", "Critical issues",
                                      "Critical Issues"),
                        SeverityBlock(Get(issues, "high", JList(<<>>)),
                                      "high", "High severity issues",
                                      "High Issues")),
                    SeverityBlock(Get(issues, "warnings", JList(<<>>)),
                                  "warning", "Warnings", "Warnings")),
                SeverityBlock(Get(issues, "suggestions", JList(<<>>)),
                              "suggestion", "Suggestions", "Suggestions")),
            "\n")

\* one <li> of the positive observations
ObservationItem(obs) ==
    IF ~IsDict(obs) THEN HtmlRaise("AttributeError")
    ELSE HtmlOk(<< Lit("<li><strong>"),
                   Esc(Get(obs, "category", JStr("General"))),
                   Lit("</strong>: "),
                   Esc(Get(obs, "observation", JStr(""))),
                   Lit("</li>") >>)

RECURSIVE ObservationItems(_, _)
\* ''.join(obs_html) from the i-th observation on
ObservationItems(lst, i) ==
    IF i > Len(lst) THEN HtmlOk(<<>>)
    ELSE HtmlThen(ObservationItem(lst[i]), ObservationItems(lst, i + 1))

\* 'for obs in observations', as in CardsOf
ObservationsOf(observations) ==
    CASE observations.t = "list" -> ObservationItems(observations.v, 1)
      [] observations.t \in {"str", "dict"} -> HtmlRaise("AttributeError")
      [] OTHER -> HtmlRaise("TypeError")

render_positive_observations(observations) ==
    IF ~Truthy(observations) THEN HtmlOk(<<>>)
    ELSE HtmlThen(
            HtmlThen(
                HtmlOk(<< Lit("<section role=\"region\" "
                              \o "aria-label=\"Positive observations\">\n"
                              \o "<h2>Positive Observations</h2>\n"
                              \o "<div class=\"positive-observation\">\n<ul>\n") >>),
                ObservationsOf(observations)),
            HtmlOk(<< Lit("\n</ul>\n</div>\n</section>\n") >>))

render_summary_section(summary, statistics) ==
    IF ~IsDict(summary) \/ ~IsDict(statistics) THEN HtmlRaise("AttributeError")
    ELSE HtmlOk(
        << Lit("<section role=\"region\" aria-label=\"Summary\">\n"
               \o "<h2>Summary</h2>\n<ul>\n<li><strong>Total Issues</strong>: "),
           Raw(Get(statistics, "critical", JInt(0))),
           Lit(" Critical, "),
           Raw(Get(statistics, "high", JInt(0))),
           Lit(" High, "),
           Raw(Get(statistics, "warnings", JInt(0))),
           Lit(" Warnings, "),
           Raw(Get(statistics, "suggestions", JInt(0))),
           Lit(" Suggestions</li>\n<li><strong>Overall Assessment</strong>: "),
           Esc(Get(summary, "assessment", JStr("N/A"))),
           Lit("</li>\n<li><strong>Priority Focus</strong>: "),
           Esc(Get(summary, "priority_focus", JStr("N/A"))),
           Lit("</li>\n</ul>\n<p>"),
           Esc(Get(summary, "detailed_summary", JStr("N/A"))),
           Lit("</p>\n</section>\n") >>)

\* the exception of the first of the renderings rs that raised, or ""
FirstExc(rs) ==
    IF \A i \in 1..Len(rs) : rs[i].exc = "" THEN ""
    ELSE rs[CHOOSE i \in 1..Len(rs) :
                /\ rs[i].exc # ""
                /\ \A j \in 1..(i - 1) : rs[j].exc = ""].exc

\* the document f-string, rs the sections in the order they were rendered:
\* context, statistics, issues, positive observations, summary
Document(rs) ==
    IF FirstExc(rs) # "" THEN HtmlRaise(FirstExc(rs))
    ELSE HtmlOk(
        << Lit("<!DOCTYPE html>\n<html lang=\"en\">\n<head>\n"
               \o "    <meta charset=\"UTF-8\">\n"
               \o "    <meta name=\"viewport\" "
               \o "content=\"width=device-width, initial-scale=1.0\">\n"
               \o "    <meta name=\"description\" content=\"AI Code Review "
               \o "Report - WCAG 2.1 Level AA Accessible\">\n"
               \o "    <title>Code Review Report</title>\n    <style>\n"
               \o CSS_STYLES \o "\n    </style>\n</head>\n<body>\n"
               \o "    <div class=\"container\" role=\"main\">\n"
               \o "        <h1>Code Review Report</h1>\n\n        ") >>
        \o rs[2].html \o << Lit("\n        ") >>
        \o rs[1].html \o << Lit("\n        ") >>
        \o rs[3].html \o << Lit("\n        ") >>
        \o rs[4].html \o << Lit("\n        ") >>
        \o rs[5].html
        \o << Lit("\n    </div>\n</body>\n</html>\n") >>)

\* render_html_template(review_data): [exc, html]; .get on a value that is
\* not a dict raises AttributeError
render_html_template(data) ==
    IF ~IsDict(data) THEN HtmlRaise("AttributeError")
    ELSE Document(
        << render_context_section(Get(data, "context", JDict(<<>>))),
           render_statistics_section(Get(data, "statistics", JDict(<<>>))),
           render_all_issues(Get(data, "issues", JDict(<<>>))),
           render_positive_observations(
               Get(data, "positive_observations", JList(<<>>))),
           render_summary_section(Get(data, "summary", JDict(<<>>)),
                                  Get(data, "statistics", JDict(<<>>))) >>)

---------------------------------------------------------------------------
(* Standalone Schema Validator: validate_zuul_schema.py *)

\* type(x).__name__
TypeName(x) ==
    CASE x.t = "null" -> "NoneType"
      [] OTHER -> x.t

valid_levels == {JStr("info"), JStr("warning"), JStr("error")}

\* what validate_schema returns, or the exception it raises
Accept == [exc |-> "", ok |-> TRUE, message |-> "Schema validation passed"]
Reject(message) == [exc |-> "", ok |-> FALSE, message |-> message]
SchemaRaise(exc) == [exc |-> exc, ok |-> FALSE, message |-> ""]

\* the checks on comment i of file_path with the level looked at before the
\* message
CheckCommentLevelFirst(file_path, i, comment) ==
    IF ~IsDict(comment)
    THEN Reject("Comment " \o IntToStr(i) \o " in " \o file_path
                \o " must be a dict")
    ELSE IF Has(comment, "level")
            /\ Get(comment, "level", JNull).t \in {"list", "dict"}
    THEN SchemaRaise("TypeError")
    ELSE IF Has(comment, "level")
            /\ Get(comment, "level", JNull) \notin valid_levels
    THEN Reject("Invalid level " \o PyStr(Get(comment, "level", JNull))
                \o " in " \o file_path \o ", must be info/warning/error")
    ELSE IF ~Has(comment, "message")
    THEN Reject("Comment " \o IntToStr(i) \o " in " \o file_path
                \o " missing required message field")
    ELSE IF Has(comment, "line") /\ ~IsInt(Get(comment, "line", JNull))
    THEN Reject("line must be integer in " \o file_path \o ", got "
                \o TypeName(Get(comment, "line", JNull)))
    ELSE Accept

\* lines 57-82, the checks on comment i of file_path, in the order the code
\* makes them; a level that is a list or dict cannot be looked up in a set
CheckComment(file_path, i, comment) ==
    IF ~IsDict(comment)
    THEN Reject("Comment " \o IntToStr(i) \o " in " \o file_path
                \o " must be a dict")
    ELSE IF ~Has(comment, "message")
    THEN Reject("Comment " \o IntToStr(i) \o " in " \o file_path
                \o " missing required message field")
    ELSE IF Has(comment, "level")
            /\ Get(comment, "level", JNull).t \in {"list", "dict"}
    THEN SchemaRaise("TypeError")
    ELSE IF Has(comment, "level")
            /\ Get(comment, "level", JNull) \notin valid_levels
    THEN Reject("Invalid level " \o PyStr(Get(comment, "level", JNull))
                \o " in " \o file_path \o ", must be info/warning/error")
    ELSE IF Has(comment, "line") /\ ~IsInt(Get(comment, "line", JNull))
    THEN Reject("line must be integer in " \o file_path \o ", got "
                \o TypeName(Get(comment, "line", JNull)))
    ELSE Accept

RECURSIVE CheckComments(_, _, _)
\* the inner loop after the comment that gave r
ContinueComments(r, file_path, comments, i) ==
    IF r.exc # "" \/ ~r.ok THEN r
    ELSE CheckComments(file_path, comments, i + 1)

\* the inner loop from comment i (counted from 0) on
CheckComments(file_path, comments, i) ==
    IF i >= Len(comments) THEN Accept
    ELSE ContinueComments(CheckComment(file_path, i, comments[i + 1]),
                          file_path, comments, i)

\* lines 53-56: the comments of one file
CheckFile(file_path, comments) ==
    IF ~IsList(comments)
    THEN Reject("Comments for " \o file_path \o " must be a list")
    ELSE CheckComments(file_path, comments.v, 0)

RECURSIVE CheckFiles(_, _)
\* the outer loop after the file that gave r
ContinueFiles(r, items, k) ==
    IF r.exc # "" \/ ~r.ok THEN r ELSE CheckFiles(items, k + 1)

\* the loop over file_comments.items() from the k-th item on
CheckFiles(items, k) ==
    IF k > Len(items) THEN Accept
    ELSE ContinueFiles(CheckFile(items[k][1], items[k][2]), items, k)

\* lines 43-52, fc the result of data['zuul']['file_comments']
SchemaFileComments(fc) ==
    IF fc.exc # "" THEN SchemaRaise(fc.exc)
    ELSE IF ~IsDict(fc.val)
    THEN Reject("file_comments must be a dict, got " \o TypeName(fc.val))
    ELSE CheckFiles(fc.val.v, 1)

\* lines 40-41, has the result of 'file_comments' in data['zuul']
SchemaHasFileComments(zuul, has) ==
    IF has.exc # "" THEN SchemaRaise(has.exc)
    ELSE IF ~has.b THEN Reject("Missing required key: zuul.file_comments")
    ELSE SchemaFileComments(PyItem(zuul, "file_comments"))

\* zuul the result of data['zuul']
SchemaZuul(zuul) ==
    IF zuul.exc # "" THEN SchemaRaise(zuul.exc)
    ELSE SchemaHasFileComments(zuul.val, PyIn("file_comments", zuul.val))

\* lines 37-38, has the result of 'zuul' in data
SchemaHasZuul(data, has) ==
    IF has.exc # "" THEN SchemaRaise(has.exc)
    ELSE IF ~has.b THEN Reject("Missing required key: zuul")
    ELSE SchemaZuul(PyItem(data, "zuul"))

\* validate_schema(data): [exc, ok, message]
validate_schema(data) == SchemaHasZuul(data, PyIn("zuul", data))

---------------------------------------------------------------------------
(* Review documents the runs are given *)

\* the most issues a generated document holds, over its four lists
MaxIssues == 2

RECURSIVE SeqsUpTo(_, _)
\* the sequences over S of length at most n
SeqsUpTo(S, n) ==
    IF n = 0 THEN {<<>>}
    ELSE LET shorter == SeqsUpTo(S, n - 1)
         IN shorter \cup {Append(q, x) : q \in {r \in shorter : Len(r) = n - 1},
                                         x \in S}

\* a dict from <<key, value>> pairs, the pairs whose value is Absent left out
DictOf(pairs) ==
    LET keep == {i \in 1..Len(pairs) : pairs[i][2] # Absent}
        RECURSIVE Build(_)
        Build(i) ==
            IF i > Len(pairs) THEN <<>>
            ELSE (IF i \in keep THEN <<pairs[i]>> ELSE <<>>) \o Build(i + 1)
    IN JDict(Build(1))

\* an issue with the given location (Absent: no location key)
IssueAt(location) ==
    DictOf(<< <<"description", JStr("d")>>,
              <<"confidence", JFloat(95)>>,
              <<"location", location>>,
              <<"risk", JStr("High")>> >>)

\* the issues mapping: an empty list is left out when 'omit'
IssuesOf(critical, high, warnings, suggestions, omit) ==
    LET L(q) == IF omit /\ q = <<>> THEN Absent ELSE JList(q)
    IN DictOf(<< <<"critical", L(critical)>>,
                 <<"high", L(high)>>,
                 <<"warnings", L(warnings)>>,
                 <<"suggestions", L(suggestions)>> >>)

SampleContext ==
    JDict(<< <<"change", JStr("12345")>>,
             <<"scope", JStr("Modified roles/ai_code_review")>>,
             <<"impact", JStr("Adds structured output support")>> >>)

SampleStatistics ==
    JDict(<< <<"critical", JInt(1)>>, <<"high", JInt(2)>>,
             <<"warnings", JInt(3)>>, <<"suggestions", JInt(1)>>,
             <<"total", JInt(7)>> >>)

SampleObservations ==
    JList(<< JDict(<< <<"category", JStr("Code Quality")>>,
                      <<"observation", JStr("Good structure")>> >>) >>)

SampleSummary ==
    JDict(<< <<"assessment", JStr("Needs improvements")>>,
             <<"priority_focus", JStr("Security")>>,
             <<"detailed_summary", JStr("Multiple security issues found")>> >>)

\* a review document; a part given as Absent is left out
ReviewDoc(context, statistics, issues, observations, summary) ==
    DictOf(<< <<"context", context>>,
              <<"statistics", statistics>>,
              <<"issues", issues>>,
              <<"positive_observations", observations>>,
              <<"summary", summary>> >>)

\* the sample review of the unit tests
SampleIssue ==
    JDict(<< <<"description", JStr("Security vulnerability")>>,
             <<"confidence", JFloat(95)>>,
             <<"location", JStr("roles/ai_code_review/tasks/main.yaml:25")>>,
             <<"risk", JStr("High")>>,
             <<"remediation_priority", JStr("Immediate")>>,
             <<"why_matters", JStr("Allows unauthorized access")>>,
             <<"recommendation", JStr("Add authentication check")>> >>)

SampleReview ==
    ReviewDoc(SampleContext, SampleStatistics,
              IssuesOf(<<SampleIssue>>, <<>>, <<>>, <<>>, FALSE),
              SampleObservations, SampleSummary)

\* the locations the CI-comment runs meet
ZuulLocations ==
    { Absent, JStr(""), JStr("not-a-location"), JStr("a.py:0"), JStr("/:3"),
      JStr("a.py:2"), JStr("a.py:1"), JStr("b.py:1-9"),
      JStr("/home/zuul/src/opendev.org/openstack/nova/a.py:7"), JInt(5),
      JStr("x.py:10") }

ZuulIssues == {IssueAt(l) : l \in ZuulLocations}

\* the locations of the documents that hold several issues
CoreLocations ==
    {Absent, JStr("a.py:0"), JStr("a.py:2"), JStr("a.py:1"), JStr("b.py:1-9")}

CoreIssues == {IssueAt(l) : l \in CoreLocations}

\* the ways to cut a sequence of n issues into the four lists
Splits(n) ==
    {s \in (0..n) \X (0..n) \X (0..n) : s[1] <= s[2] /\ s[2] <= s[3]}

\* the documents of at most MaxIssues issues, spread over the four lists
DocsOver(issueSet) ==
    UNION { { ReviewDoc(SampleContext, SampleStatistics,
                        IssuesOf(SubSeq(q, 1, s[1]), SubSeq(q, s[1] + 1, s[2]),
                                 SubSeq(q, s[2] + 1, s[3]),
                                 SubSeq(q, s[3] + 1, Len(q)), omit),
                        SampleObservations, SampleSummary) :
                s \in Splits(Len(q)), omit \in BOOLEAN } :
            q \in SeqsUpTo(issueSet, MaxIssues) }

\* the documents of one issue, in any one of the four lists
SingleDocs(issueSet) ==
    { ReviewDoc(SampleContext, SampleStatistics,
                IssuesOf(IF k = 1 THEN <<x>> ELSE <<>>,
                         IF k = 2 THEN <<x>> ELSE <<>>,
                         IF k = 3 THEN <<x>> ELSE <<>>,
                         IF k = 4 THEN <<x>> ELSE <<>>, TRUE),
                SampleObservations, SampleSummary) :
        x \in issueSet, k \in 1..4 }

\* documents whose shape the CI-comment command does not expect
OddDocs ==
    { JList(<<>>), JList(<<JStr("structured_output")>>), JInt(7), JNull,
      JStr("zuul"),
      DictOf(<< <<"issues", JList(<<>>)>> >>),
      DictOf(<< <<"issues", JDict(<< <<"critical", JNull>> >>)>> >>),
      DictOf(<< <<"issues", JDict(<< <<"high", JStr("")>> >>)>> >>),
      DictOf(<< <<"issues", JDict(<< <<"high", JList(<<JStr("x")>>)>> >>)>> >>),
      DictOf(<< <<"context", SampleContext>> >>) }

\* a document wrapped as the reviewer's tool wraps it
Wrapped(inner) ==
    JDict(<< <<"type", JStr("result")>>, <<"structured_output", inner>> >>)

WrappedDocs ==
    { Wrapped(x) : x \in {SampleReview, JNull, JStr("refused"), JList(<<>>),
                          JInt(0), JDict(<<>>)} }

PlainFile(value) ==
    [exists |-> TRUE, leading |-> FALSE, value |-> value, trailing |-> FALSE,
     msg |-> "", pos |-> 0]

\* what a decoder that reads the whole of a framed file complains of
FrameMsg(x, t) ==
    IF x = Absent THEN "Expecting value" ELSE IF t THEN "Extra data" ELSE ""

\* and where: a value is written as json.dumps writes it, after one leading
\* blank if any; a file with no value holds other text there
FramePos(l, x, t) ==
    IF x = Absent THEN (IF l THEN 1 ELSE 0)
    ELSE IF t THEN (IF l THEN 1 ELSE 0) + Len(json_dumps(x))
    ELSE 0

\* the framings of an input file around the values 'values'
FramedFiles(values) ==
    { [exists |-> TRUE, leading |-> l, value |-> x, trailing |-> t,
       msg |-> FrameMsg(x, t), pos |-> FramePos(l, x, t)] :
        l \in BOOLEAN, t \in BOOLEAN, x \in values \cup {Absent} }
    \cup {[exists |-> FALSE, leading |-> FALSE, value |-> Absent,
           trailing |-> FALSE, msg |-> "", pos |-> 0]}

\* text that must not reach an HTML page as it is
Hostile == "<script>alert(1)</script>"

\* an issue with a detail field for every severity and markup in its texts
HostileIssue ==
    JDict(<< <<"description", JStr(Hostile)>>,
             <<"confidence", JInt(1)>>,
             <<"location", JStr("x&y.py:3")>>,
             <<"risk", JStr("\"R\" & 'r'")>>,
             <<"impact", JStr("<i>")>>,
             <<"suggestion", JInt(7)>>,
             <<"benefit", JStr("a > b")>>,
             <<"recommendation", JStr("use 'x'")>> >>)

\* the issues the HTML runs meet
HtmlIssues ==
    { IssueAt(Absent), IssueAt(JStr("not-a-location")), IssueAt(JStr("a.py:1")),
      HostileIssue }

HtmlContexts ==
    { SampleContext, JDict(<<>>),
      JDict(<< <<"change", JStr(Hostile)>>, <<"scope", JInt(3)>>,
               <<"impact", JStr("a&b \"c\" 'd'")>> >>) }

\* statistics whose counts are given in full, the total as given
StatisticsOf(critical, high, warnings, suggestions, total) ==
    DictOf(<< <<"critical", critical>>, <<"high", high>>,
              <<"warnings", warnings>>, <<"suggestions", suggestions>>,
              <<"total", total>> >>)

HtmlStatistics ==
    { SampleStatistics,
      StatisticsOf(JInt(1), JInt(0), JInt(0), JInt(0), JInt(5)),
      StatisticsOf(JInt(1), JInt(0), JInt(2), JInt(0), Absent),
      StatisticsOf(JInt(0), JInt(0), JInt(0), JInt(0), JInt(0)),
      StatisticsOf(JStr(Hostile), JInt(0), JInt(0), JInt(0), JInt(0)),
      StatisticsOf(JInt(2), JInt(1), JInt(0), JInt(4), JStr("\"7\"")),
      JDict(<<>>) }

HtmlObservations ==
    { Absent, JList(<<>>), SampleObservations,
      JList(<< JDict(<< <<"category", JStr("<b>")>>,
                        <<"observation", JStr("it's \"fine\" & good")>> >>),
               JDict(<<>>) >>) }

HtmlSummaries ==
    { SampleSummary, JDict(<<>>),
      JDict(<< <<"assessment", JStr(Hostile)>>,
               <<"priority_focus", JStr("a&b")>>,
               <<"detailed_summary", JStr("'q' > \"r\"")>> >>) }

\* documents that differ in everything but their issues
RestDocs ==
    { ReviewDoc(c, st, IssuesOf(<<IssueAt(JStr("a.py:1"))>>, <<>>, <<>>, <<>>,
                                TRUE), o, sm) :
        c \in HtmlContexts, st \in HtmlStatistics, o \in HtmlObservations,
        sm \in HtmlSummaries }

\* the sample review with one part replaced (Absent: left out)
SampleWith(key, val) ==
    ReviewDoc(IF key = "context" THEN val ELSE SampleContext,
              IF key = "statistics" THEN val ELSE SampleStatistics,
              IF key = "issues" THEN val
              ELSE IssuesOf(<<SampleIssue>>, <<>>, <<>>, <<>>, FALSE),
              IF key = "positive_observations" THEN val ELSE SampleObservations,
              IF key = "summary" THEN val ELSE SampleSummary)

\* documents the HTML renderer does not expect
HtmlOddDocs ==
    { SampleWith(k, x) :
        k \in {"context", "statistics", "issues", "positive_observations",
               "summary"},
        x \in {Absent, JNull, JList(<<>>), JStr("x"), JInt(5)} }
    \cup { SampleWith("issues", JDict(<< <<"critical", x>> >>)) :
            x \in { JStr("x"), JInt(5), JNull, JDict(<<>>),
                    JList(<<JStr("x")>>),
                    JList(<<JDict(<< <<"confidence", JStr("high")>> >>)>>),
                    JList(<<JDict(<< <<"confidence", JNull>> >>)>>) } }
    \cup { SampleWith("positive_observations", JList(<<JStr("x")>>)),
           JList(<< JStr("context"), JStr("statistics"), JStr("issues"),
                    JStr("summary") >>),
           JStr("context statistics issues summary"),
           JList(<<>>), JInt(7), JNull, JDict(<<>>) }

---------------------------------------------------------------------------
(* Payloads the standalone validator is given *)

\* the most comments a generated payload lists for its file
MaxComments == 2

\* a comment with the given fields (Absent: no such key)
CommentOf(line, message, level) ==
    DictOf(<< <<"line", line>>, <<"message", message>>, <<"level", level>> >>)

\* comments that differ from a well-formed one in at most two fields, and
\* values that are no comments at all
CommentVariants ==
    { CommentOf(l, JStr("m"), JStr("info")) :
        l \in {JInt(1), Absent, JStr("1"), JBool(TRUE), JNull, JFloat(150)} }
    \cup { CommentOf(JInt(1), m, JStr("info")) :
            m \in {Absent, JInt(5), JNull, JStr("")} }
    \cup { CommentOf(JInt(1), JStr("m"), l) :
            l \in { Absent, JStr("warning"), JStr("error"), JStr("fatal"),
                    JInt(3), JNull, JList(<<>>) } }
    \cup { CommentOf(JStr("1"), JInt(5), JStr("fatal")),
           CommentOf(JStr("1"), Absent, JStr("fatal")),
           CommentOf(JStr("1"), JStr("m"), JStr("fatal")),
           JStr("m"), JList(<<>>), JNull }

\* the payload whose file_comments is fc
PayloadOf(fc) ==
    JDict(<< <<"zuul", JDict(<< <<"file_comments", fc>> >>)>> >>)

\* payloads of one file with at most MaxComments comments, and of two files
\* with one comment each
Payloads ==
    { PayloadOf(JDict(<< <<"a.py", JList(q)>> >>)) :
        q \in SeqsUpTo(CommentVariants, MaxComments) }
    \cup { PayloadOf(JDict(<< <<"a.py", JList(<<c1>>)>>,
                              <<"b/c.py", JList(<<c2>>)>> >>)) :
            c1 \in CommentVariants, c2 \in CommentVariants }

\* payloads whose outer shape is wrong
OddPayloads ==
    { JDict(<<>>), JNull, JInt(5), JStr("zuul"), JStr("x"),
      JList(<<JStr("zuul")>>), JList(<<>>),
      JDict(<< <<"zuul", JNull>> >>),
      JDict(<< <<"zuul", JDict(<<>>)>> >>),
      JDict(<< <<"zuul", JStr("file_comments")>> >>),
      JDict(<< <<"zuul", JList(<<JStr("file_comments")>>)>> >>),
      PayloadOf(JList(<<>>)), PayloadOf(JNull), PayloadOf(JStr("a.py")),
      PayloadOf(JDict(<<>>)),
      PayloadOf(JDict(<< <<"a.py", JStr("m")>> >>)),
      PayloadOf(JDict(<< <<"a.py", JDict(<<>>)>> >>)),
      PayloadOf(JDict(<< <<"a.py", JNull>> >>)) }

---------------------------------------------------------------------------
(* The CI-comment command: main() of generate_zuul_comments.py *)

\* argparse: --validate is store_true with default True, so it is always set
ZuulArgs == [output : {"stdout", "file"}, validate : {TRUE}]

ZuulInputs ==
    {PlainFile(d) : d \in DocsOver(CoreIssues) \cup SingleDocs(ZuulIssues)}
    \cup FramedFiles({SampleReview} \cup OddDocs \cup WrappedDocs)

InitRun(c, a, f) ==
    /\ cmd = c
    /\ args = a
    /\ file = f
    /\ pc = "load"
    /\ raw_data = Absent
    /\ review_data = Absent
    /\ result = Absent
    /\ validated = Absent
    /\ emitted = <<>>
    /\ error = ""
    /\ exit_code = -1

InitZuul ==
    \E a \in ZuulArgs, f \in ZuulInputs :
        /\ (a.output = "file" => f \in FramedFiles({SampleReview, JList(<<>>)}))
        /\ InitRun("zuul", a, f)

\* sys.exit(1) after a reported error, or an exception nothing catches
Fail(kind) ==
    /\ pc' = "done"
    /\ error' = kind
    /\ exit_code' = 1

\* the try/except around the load, r its result
ZuulLoaded(r) ==
    IF r.exc # ""
    THEN Fail(r.exc) /\ UNCHANGED raw_data
    ELSE /\ raw_data' = r.data
         /\ pc' = "unwrap"
         /\ UNCHANGED <<error, exit_code>>

\* lines 401-409: read and decode the input file
ZuulLoad ==
    /\ cmd = "zuul" /\ pc = "load"
    /\ ZuulLoaded(load_json_with_trailing_text(file))
    /\ UNCHANGED <<cmd, args, file, review_data, result, validated, emitted>>

\* lines 412-420, r the result of extract_review_data
ZuulUnwrapped(r) ==
    IF r.exc # ""
    THEN Fail(r.exc) /\ UNCHANGED review_data
    ELSE /\ review_data' = r.data
         /\ IF WrapperShapeError(raw_data)
            THEN Fail("WrapperShapeError")
            ELSE pc' = "generate" /\ UNCHANGED <<error, exit_code>>

\* lines 411-420: unwrap, then the wrapper-shape check
ZuulUnwrap ==
    /\ cmd = "zuul" /\ pc = "unwrap"
    /\ ZuulUnwrapped(extract_review_data(raw_data))
    /\ UNCHANGED <<cmd, args, file, raw_data, result, validated, emitted>>

\* line 426, r the result of generate_zuul_return_data
ZuulGenerated(r) ==
    IF r.exc # ""
    THEN Fail(r.exc) /\ UNCHANGED result
    ELSE /\ result' = r.data
         /\ pc' = "validate"
         /\ UNCHANGED <<error, exit_code>>

\* lines 425-426: build the payload
ZuulGenerate ==
    /\ cmd = "zuul" /\ pc = "generate"
    /\ ZuulGenerated(generate_zuul_return_data(review_data))
    /\ UNCHANGED <<cmd, args, file, raw_data, review_data, validated, emitted>>

\* lines 430-432, r the result of validate_zuul_schema
ZuulValidated(r) ==
    /\ validated' = [data |-> result, ok |-> r.exc = "" /\ r.ok]
    /\ IF r.exc # "" THEN Fail(r.exc)
       ELSE IF ~r.ok THEN Fail("SchemaValidationFailed")
       ELSE pc' = "emit" /\ UNCHANGED <<error, exit_code>>

\* lines 428-434: the schema gate
ZuulValidate ==
    /\ cmd = "zuul" /\ pc = "validate"
    /\ IF args.validate
       THEN ZuulValidated(validate_zuul_schema(result))
       ELSE pc' = "emit" /\ UNCHANGED <<validated, error, exit_code>>
    /\ UNCHANGED <<cmd, args, file, raw_data, review_data, result, emitted>>

\* lines 441, 450-451: print the payload, and leave with status 0
ZuulEmitStdout ==
    /\ cmd = "zuul" /\ pc = "emit" /\ args.output = "stdout"
    /\ emitted' = Append(emitted, [to |-> "stdout", text |-> json_dumps(result)])
    /\ pc' = "done"
    /\ exit_code' = 0
    /\ UNCHANGED <<cmd, args, file, raw_data, review_data, result, validated,
                   error>>

\* lines 441-446: write the payload to the -o file, and leave with status 0
ZuulEmitFile ==
    /\ cmd = "zuul" /\ pc = "emit" /\ args.output = "file"
    /\ emitted' = Append(emitted, [to |-> "file", text |-> json_dumps(result)])
    /\ pc' = "done"
    /\ exit_code' = 0
    /\ UNCHANGED <<cmd, args, file, raw_data, review_data, result, validated,
                   error>>

\* lines 447-449: the -o file cannot be written
ZuulEmitFileFails ==
    /\ cmd = "zuul" /\ pc = "emit" /\ args.output = "file"
    /\ Fail("OSError")
    /\ UNCHANGED <<cmd, args, file, raw_data, review_data, result, validated,
                   emitted>>

NextZuul ==
    \/ ZuulLoad
    \/ ZuulUnwrap
    \/ ZuulGenerate
    \/ ZuulValidate
    \/ ZuulEmitStdout
    \/ ZuulEmitFile
    \/ ZuulEmitFileFails

SpecZuul == InitZuul /\ [][NextZuul]_vars

---------------------------------------------------------------------------
(* The HTML command: main() of render_html_from_json.py *)

HtmlArgs == [verbose : BOOLEAN]

HtmlInputs ==
    {PlainFile(d) : d \in DocsOver(HtmlIssues) \cup RestDocs \cup HtmlOddDocs}
    \cup FramedFiles({SampleReview})

InitHtml ==
    \E a \in HtmlArgs, f \in HtmlInputs :
        /\ (a.verbose =>
                f \in FramedFiles({SampleReview})
                      \cup {PlainFile(d) : d \in HtmlOddDocs})
        /\ InitRun("html", a, f)

\* json.load(f) on the opened input: the whole text must be one value
json_load(f) ==
    IF ~f.exists THEN DecodeError("FileNotFoundError", "", 0)
    ELSE json_loads(f)

HtmlLoaded(r) ==
    IF r.exc # ""
    THEN Fail(r.exc) /\ UNCHANGED review_data
    ELSE /\ review_data' = r.data
         /\ pc' = "check"
         /\ UNCHANGED <<error, exit_code>>

\* lines 648-657: read and decode the input file
HtmlLoad ==
    /\ cmd = "html" /\ pc = "load"
    /\ HtmlLoaded(json_load(file))
    /\ UNCHANGED <<cmd, args, file, raw_data, result, validated, emitted>>

required_keys == <<"context", "statistics", "issues", "summary">>

\* 'key not in review_data' for each required key
RequiredKeyTests(data) ==
    [i \in 1..Len(required_keys) |-> PyIn(required_keys[i], data)]

\* lines 669-672: what --verbose prints needs two .get calls
VerboseExc(data) ==
    IF ~IsDict(data) THEN "AttributeError"
    ELSE IF ~IsDict(Get(data, "statistics", JDict(<<>>))) THEN "AttributeError"
    ELSE ""

\* lines 661-672, tests the membership tests of the required keys
HtmlChecked(tests) ==
    IF \E i \in 1..Len(tests) : tests[i].exc # "" THEN Fail("TypeError")
    ELSE IF \E i \in 1..Len(tests) : ~tests[i].b THEN Fail("MissingKeys")
    ELSE IF args.verbose /\ VerboseExc(review_data) # ""
    THEN Fail(VerboseExc(review_data))
    ELSE pc' = "render" /\ UNCHANGED <<error, exit_code>>

\* lines 659-672: the required keys, then the verbose lines
HtmlCheckKeys ==
    /\ cmd = "html" /\ pc = "check"
    /\ HtmlChecked(RequiredKeyTests(review_data))
    /\ UNCHANGED <<cmd, args, file, raw_data, review_data, result, validated,
                   emitted>>

HtmlRendered(r) ==
    IF r.exc # ""
    THEN Fail(r.exc) /\ UNCHANGED result
    ELSE /\ result' = r.html
         /\ pc' = "write"
         /\ UNCHANGED <<error, exit_code>>

\* line 675: build the document in memory
HtmlRender ==
    /\ cmd = "html" /\ pc = "render"
    /\ HtmlRendered(render_html_template(review_data))
    /\ UNCHANGED <<cmd, args, file, raw_data, review_data, validated, emitted>>

\* lines 678-682: one write_text call; the text is kept as its pieces
HtmlWrite ==
    /\ cmd = "html" /\ pc = "write"
    /\ emitted' = Append(emitted, [to |-> "file", text |-> result])
    /\ pc' = "done"
    /\ exit_code' = 0
    /\ UNCHANGED <<cmd, args, file, raw_data, review_data, result, validated,
                   error>>

\* lines 683-685: the output file cannot be written
HtmlWriteFails ==
    /\ cmd = "html" /\ pc = "write"
    /\ Fail("OSError")
    /\ UNCHANGED <<cmd, args, file, raw_data, review_data, result, validated,
                   emitted>>

NextHtml ==
    \/ HtmlLoad
    \/ HtmlCheckKeys
    \/ HtmlRender
    \/ HtmlWrite
    \/ HtmlWriteFails

SpecHtml == InitHtml /\ [][NextHtml]_vars

---------------------------------------------------------------------------
(* The validator command: main() of validate_zuul_schema.py *)

\* given: whether a file name follows the script name
ValidateArgs == [given : BOOLEAN]

ValidateInputs ==
    {PlainFile(d) : d \in Payloads \cup OddPayloads}
    \cup FramedFiles({PayloadOf(JDict(<<>>))})

InitValidate ==
    \E a \in ValidateArgs, f \in ValidateInputs :
        /\ (~a.given => f = PlainFile(PayloadOf(JDict(<<>>))))
        /\ InitRun("validate", a, f)

\* lines 89-107: the usage check, the existence check and the decoding
ValidateLoaded(r) ==
    IF ~args.given THEN Fail("Usage") /\ UNCHANGED raw_data
    ELSE IF r.exc # "" THEN Fail(r.exc) /\ UNCHANGED raw_data
    ELSE /\ raw_data' = r.data
         /\ pc' = "check"
         /\ UNCHANGED <<error, exit_code>>

ValidateLoad ==
    /\ cmd = "validate" /\ pc = "load"
    /\ ValidateLoaded(json_load(file))
    /\ UNCHANGED <<cmd, args, file, review_data, result, validated, emitted>>

\* lines 109-116, r what validate_schema returned or raised
ValidateReported(r) ==
    IF r.exc # "" THEN Fail(r.exc) /\ UNCHANGED <<result, emitted>>
    ELSE /\ result' = [ok |-> r.ok, message |-> r.message]
         /\ pc' = "done"
         /\ IF r.ok
            THEN /\ emitted' = Append(emitted, [to |-> "stderr",
                                                text |-> r.message \o "\n"])
                 /\ exit_code' = 0
                 /\ UNCHANGED error
            ELSE /\ emitted' = Append(emitted,
                        [to |-> "stderr",
                         text |-> "Schema validation failed: " \o r.message
                                  \o "\n"])
                 /\ exit_code' = 1
                 /\ error' = "SchemaValidationFailed"

ValidateCheck ==
    /\ cmd = "validate" /\ pc = "check"
    /\ ValidateReported(validate_schema(raw_data))
    /\ UNCHANGED <<cmd, args, file, raw_data, review_data, validated>>

NextValidate ==
    \/ ValidateLoad
    \/ ValidateCheck

SpecValidate == InitValidate /\ [][NextValidate]_vars

---------------------------------------------------------------------------
(* Either renderer command, run on the same documents *)

\* what a severity key may hold in these documents: nothing (Absent), the
\* empty list, or one issue
KeyStates == {Absent, JList(<<>>), JList(<<IssueAt(JStr("a.py:1"))>>)}

\* the sample review with each severity key absent, empty or of one issue
KeyDocs ==
    { SampleWith("issues",
                 DictOf(<< <<"critical", c>>, <<"high", h>>, <<"warnings", w>>,
                           <<"suggestions", g>> >>)) :
        c \in KeyStates, h \in KeyStates, w \in KeyStates, g \in KeyStates }

\* the sample review with one of its parts left out, and the empty document
PartialDocs ==
    { SampleWith(k, Absent) :
        k \in {"context", "statistics", "issues", "positive_observations",
               "summary"} }
    \cup {JDict(<<>>)}

RenderInputs ==
    {PlainFile(d) : d \in KeyDocs \cup PartialDocs \cup WrappedDocs}
    \cup FramedFiles({SampleReview, Wrapped(SampleReview)})

InitRender ==
    \/ \E a \in ZuulArgs, f \in RenderInputs : InitRun("zuul", a, f)
    \/ \E a \in HtmlArgs, f \in RenderInputs : InitRun("html", a, f)

NextRender == NextZuul \/ NextHtml

SpecRender == InitRender /\ [][NextRender]_vars

---------------------------------------------------------------------------
(* The Location Normalizer on its own: parse_location on strings *)

\* the longest string made of LocationChars that is tried
MaxLocLen == 4

LocationChars == {"a", "/", ":", "0", "1", "-", "\n"}

RECURSIVE StringsUpTo(_, _)
\* the strings over the characters C of length at most n
StringsUpTo(C, n) ==
    IF n = 0 THEN {""}
    ELSE StringsUpTo(C, n - 1)
         \cup {s \o c : s \in {r \in StringsUpTo(C, n - 1) : Len(r) = n - 1},
                        c \in C}

\* locations as reviews give them
SampleLocations ==
    { "roles/ai_code_review/tasks/main.yaml:25", "x.py:10", "b.py:1-9",
      "a.py:12-", "a.py:-3", "a.py:1-2-3", "a.py:1:2", "C:/x/a.py:3",
      "a.py:007", "a.py: 3", "a.py:3 ", "not-a-location",
      "/home/zuul/src/opendev.org/openstack/nova/nova/compute/manager.py:140",
      "/home/zuul/src/review.opendev.org/openstack/nova/a.py:7",
      "/home/zuul/src/a.py:7", "/home/zuul/src/x/a.py:7",
      "/opt/stack/nova/a.py:9", "/a.py:9", "/x/a.py:9", "//x/y//z:1",
      "a.py:10\n", "b.py:1-9\n" }

Locations == StringsUpTo(LocationChars, MaxLocLen) \cup SampleLocations

InitLocation ==
    \E s \in Locations : InitRun("parse_location", [location |-> s], PlainFile(Absent))

\* one call of parse_location(location)
ParseLocation ==
    /\ cmd = "parse_location" /\ pc = "load"
    /\ result' = parse_location(JStr(args.location))
    /\ pc' = "done"
    /\ UNCHANGED <<cmd, args, file, raw_data, review_data, validated, emitted,
                   error, exit_code>>

NextLocation == ParseLocation

SpecLocation == InitLocation /\ [][NextLocation]_vars

---------------------------------------------------------------------------
(* normalize_file_path on its own *)

\* the longest path tail made of PathChars that is tried
MaxPathLen == 5

PathChars == {"a", "b", "/"}

PathHeads ==
    { "", "/", "/home/zuul/src/review.opendev.org/",
      "/home/zuul/src/opendev.org/", "/home/zuul/src/", "/home/zuul/",
      "/opt/stack/" }

SamplePaths ==
    { "/home/zuul/src/opendev.org/openstack/nova/nova/compute/manager.py",
      "/home/zuul/src/review.opendev.org/openstack/nova/a.py",
      "/home/zuul/src/opendev.org/home/zuul/src/opendev.org/a.py",
      "/home/zuul/src/x/y//home/zuul/src/a.py",
      "/home/zuul/src/opendev.org", "/home/zuul/src",
      "roles/ai_code_review/tasks/main.yaml", "a.py", "nova/a.py",
      "home/zuul/src/opendev.org/openstack/nova/a.py",
      "/a/b/c", "//a/b/c.py", "///a", "/opt/stack/nova/nova/a.py" }

Paths ==
    {h \o t : h \in PathHeads, t \in StringsUpTo(PathChars, MaxPathLen)}
    \cup SamplePaths

InitNormalize ==
    \E p \in Paths : InitRun("normalize_file_path", [path |-> p], PlainFile(Absent))

\* one call of normalize_file_path(file_path)
NormalizePath ==
    /\ cmd = "normalize_file_path" /\ pc = "load"
    /\ result' = JStr(normalize_file_path(args.path))
    /\ pc' = "done"
    /\ UNCHANGED <<cmd, args, file, raw_data, review_data, validated, emitted,
                   error, exit_code>>

NextNormalize == NormalizePath

SpecNormalize == InitNormalize /\ [][NextNormalize]_vars

---------------------------------------------------------------------------
(* format_issue_message on its own *)

\* the optional fields of an issue, each with the value it has when present
OptionalFields ==
    << <<"risk", "r1">>, <<"remediation_priority", "p1">>,
       <<"why_matters", "w1">>, <<"recommendation", "c1">>,
       <<"impact", "i1">>, <<"suggestion", "s1">>, <<"benefit", "b1">> >>

RECURSIVE WithFields(_, _, _)
\* the issue with the optional fields of the set 'present', from the i-th on
WithFields(issue, present, i) ==
    IF i > Len(OptionalFields) THEN issue
    ELSE WithFields(IF i \in present
                    THEN Put(issue, OptionalFields[i][1],
                             JStr(OptionalFields[i][2]))
                    ELSE issue,
                    present, i + 1)

MessageBases ==
    { DictOf(<< <<"description", JStr("d0")>>, <<"confidence", JFloat(95)>> >>),
      DictOf(<< <<"confidence", JInt(1)>> >>),
      DictOf(<< <<"description", JStr("d0")>> >>) }

MessageIssues ==
    { WithFields(b, present, 1) :
        b \in MessageBases, present \in SUBSET (1..Len(OptionalFields)) }

MessageSeverities == {"critical", "high", "warning", "suggestion"}

InitMessage ==
    \E i \in MessageIssues, sev \in MessageSeverities :
        InitRun("format_issue_message", [issue |-> i, severity |-> sev],
                PlainFile(Absent))

\* what the call leaves: the message, or the exception
MessageFormatted(r) ==
    /\ result' = IF r.exc = "" THEN JStr(r.message) ELSE Absent
    /\ error' = r.exc

\* one call of format_issue_message(issue, severity)
FormatMessage ==
    /\ cmd = "format_issue_message" /\ pc = "load"
    /\ MessageFormatted(format_issue_message(args.issue, args.severity))
    /\ pc' = "done"
    /\ UNCHANGED <<cmd, args, file, raw_data, review_data, validated, emitted,
                   exit_code>>

NextMessage == FormatMessage

SpecMessage == InitMessage /\ [][NextMessage]_vars

---------------------------------------------------------------------------
(* escape_html on its own *)

\* the longest text made of EscapeChars that is tried
MaxTextLen == 4

EscapeChars == {"&", "<", ">", "\"", "'", "a", ";"}

SampleTexts ==
    { "<script>alert(\"xss\")</script>", "&amp;", "&lt;b&gt;", "a &#39; b",
      "Tom & Jerry's <b>\"show\"</b>", "plain text" }

EscapeTexts == StringsUpTo(EscapeChars, MaxTextLen) \cup SampleTexts

InitEscape ==
    \E t \in EscapeTexts : InitRun("escape_html", [text |-> t], PlainFile(Absent))

\* one call of escape_html(text)
EscapeText ==
    /\ cmd = "escape_html" /\ pc = "load"
    /\ result' = JStr(escape_html(JStr(args.text)))
    /\ pc' = "done"
    /\ UNCHANGED <<cmd, args, file, raw_data, review_data, validated, emitted,
                   error, exit_code>>

NextEscape == EscapeText

SpecEscape == InitEscape /\ [][NextEscape]_vars

---------------------------------------------------------------------------
(* The two renderers called on one document object, in either order *)

BothDocs == KeyDocs \cup PartialDocs

InitBoth ==
    \E d \in BothDocs :
        /\ cmd = "both"
        /\ args = [document |-> d]
        /\ file = PlainFile(Absent)
        /\ pc = "render"
        /\ raw_data = Absent
        /\ review_data = d
        /\ result = Absent
        /\ validated = Absent
        /\ emitted = <<>>
        /\ error = ""
        /\ exit_code = -1

\* the renderer named has returned
HasRun(name) == \E i \in 1..Len(emitted) : emitted[i].to = name

\* the document object once render_html_template has returned: the function
\* and its helpers read it with .get and subscripts and assign nothing into it
AfterRender(data) == data

\* the document object were extract_file_comments to take each list out of
\* the issues mapping as it visits it
AfterExtractDrained(data) ==
    IF IsDict(data) /\ Has(data, "issues") THEN Put(data, "issues", JDict(<<>>))
    ELSE data

\* the document object once extract_file_comments has returned: it appends
\* to its own file_comments only
AfterExtract(data) == data

\* what a call leaves: its return value or its exception, the document
\* object as the call left it, and the end of the run after the second call
Returned(name, r, data) ==
    /\ emitted' = Append(emitted, [to |-> name, text |-> r])
    /\ review_data' = data
    /\ pc' = IF Len(emitted) = 1 THEN "done" ELSE "render"

\* render_html_template(review_data)
BothRenderHtml ==
    /\ cmd = "both" /\ pc = "render" /\ ~HasRun("html")
    /\ Returned("html", render_html_template(review_data),
                AfterRender(review_data))
    /\ UNCHANGED <<cmd, args, file, raw_data, result, validated, error,
                   exit_code>>

\* extract_file_comments(review_data)
BothExtractComments ==
    /\ cmd = "both" /\ pc = "render" /\ ~HasRun("comments")
    /\ Returned("comments", extract_file_comments(review_data),
                AfterExtract(review_data))
    /\ UNCHANGED <<cmd, args, file, raw_data, result, validated, error,
                   exit_code>>

NextBoth == BothRenderHtml \/ BothExtractComments

SpecBoth == InitBoth /\ [][NextBoth]_vars

---------------------------------------------------------------------------
(* The Tolerant Decoder on its own: load_json_with_trailing_text on texts *)

\* the values the texts are written from
DecodeValues ==
    { JDict(<<>>), JList(<<>>), JNull, JBool(TRUE), JStr("a b"),
      JList(<<JInt(1), JStr("x"), JNull>>),
      Wrapped(JNull),
      JDict(<< <<"confidence", JFloat(95)>>, <<"n", JInt(0 - 3)>> >>),
      PayloadOf(JDict(<< <<"a.py",
          JList(<<CommentOf(JInt(1), JStr("m"), JStr("info"))>>)>> >>)) }

\* what precedes and what follows a value in a file
DecodeLeads == {"", " ", "\n\t"}
DecodeTrails ==
    { "", "\n", " \n", "\nAdditional text from Claude CLI\n", "}", " null",
      ",x" }

\* a file is lead, body, trail, with the value the body was written from
\* (Absent when the body is the beginning of a value's text, cut short)
DecodeTexts ==
    { [lead |-> l, body |-> json_dumps(v), trail |-> t, value |-> v] :
        l \in DecodeLeads, t \in DecodeTrails, v \in DecodeValues }
    \cup UNION { { [lead |-> l, body |-> SubSeq(json_dumps(v), 1, k),
                    trail |-> "", value |-> Absent] :
                    k \in 0..(Len(json_dumps(v)) - 1), l \in {"", " "} } :
                 v \in DecodeValues }

TextOf(a) == a.lead \o a.body \o a.trail

InitDecode ==
    \E a \in DecodeTexts : InitRun("decode", a, FileOfText(TextOf(a)))

\* what the call returned or raised
DecodeLoaded(r) ==
    /\ raw_data' = IF r.exc = "" THEN r.data ELSE Absent
    /\ result' = [msg |-> r.msg, pos |-> r.pos]
    /\ error' = r.exc
    /\ pc' = "done"

\* lines 346-364: one call of load_json_with_trailing_text
DecodeLoad ==
    /\ cmd = "decode" /\ pc = "load"
    /\ DecodeLoaded(load_json_with_trailing_text(file))
    /\ UNCHANGED <<cmd, args, file, review_data, validated, emitted, exit_code>>

NextDecode == DecodeLoad

SpecDecode == InitDecode /\ [][NextDecode]_vars

---------------------------------------------------------------------------
(* Properties of the CI-comment command *)

RECURSIVE SumSeq(_, _)
\* q[i] + ... + q[Len(q)]
SumSeq(q, i) == IF i > Len(q) THEN 0 ELSE q[i] + SumSeq(q, i + 1)

\* the list a review document holds under one severity key, <<>> when it
\* holds none
IssueList(data, key) ==
    IF /\ IsDict(data)
       /\ IsDict(Get(data, "issues", JDict(<<>>)))
       /\ IsList(Get(Get(data, "issues", JDict(<<>>)), key, JList(<<>>)))
    THEN Get(Get(data, "issues", JDict(<<>>)), key, JList(<<>>)).v
    ELSE <<>>

\* the file_comments mapping of a payload
FileCommentsOf(payload) == Get(Get(payload, "zuul", JNull), "file_comments", JNull)

\* the number of records a file_comments mapping holds
RecordCount(fc) == SumSeq([i \in 1..Len(fc.v) |-> Len(fc.v[i][2].v)], 1)

\* the run has built its payload
PayloadBuilt == cmd = "zuul" /\ result.t = "dict"

\* a wrapper whose structured_output is not a review document
BadWrapper(raw) ==
    /\ IsDict(raw)
    /\ Has(raw, "structured_output")
    /\ ~IsDict(Get(raw, "structured_output", JNull))

(* C1: the payload is emitted at most once, and only after the input was   *)
(* decoded, the wrapper-shape check passed and validate_zuul_schema said    *)
(* yes to exactly the payload emitted; a validated payload is never changed *)
(* afterwards; a run that ends in a failure ends with a non-zero status and *)
(* has emitted nothing.                                                     *)
C1_EmitOnlyValidatedPayload ==
    /\ Len(emitted) <= 1
    /\ emitted # <<>> =>
          /\ raw_data.t # "absent"
          /\ ~BadWrapper(raw_data)
          /\ validated # Absent
          /\ validated.ok
          /\ validated.data = result
          /\ emitted[1].text = json_dumps(validated.data)
          /\ exit_code = 0
    /\ validated # Absent => validated.data = result
    /\ (validated # Absent /\ ~validated.ok) =>
          (pc = "done" /\ exit_code = 1 /\ emitted = <<>>)
    /\ (pc = "done" /\ error # "") => (exit_code = 1 /\ emitted = <<>>)
    /\ (pc = "done" /\ error = "") => (exit_code = 0 /\ Len(emitted) = 1)

\* a run that emitted a payload with comments, read from a wrapper
C1_Witness ==
    /\ Len(emitted) = 1
    /\ Has(raw_data, "structured_output")
    /\ validated.ok
    /\ Len(FileCommentsOf(result).v) > 0

\* the issue has a location the Location Normalizer does not turn down
Located(issue) ==
    /\ IsDict(issue)
    /\ Has(issue, "location")
    /\ IsStr(Get(issue, "location", JNull))
    /\ parse_location(Get(issue, "location", JNull)).file_path # JNull

\* the number of such issues in the four lists
LocatedCount(data) ==
    SumSeq([k \in 1..Len(severity_keys) |->
              Cardinality({i \in 1..Len(IssueList(data, severity_keys[k])) :
                              Located(IssueList(data, severity_keys[k])[i])})],
           1)

\* the four lists are lists, and every issue is a mapping whose location, if
\* any, is a string
PlainLocations(data) ==
    /\ IsDict(data)
    /\ IsDict(Get(data, "issues", JDict(<<>>)))
    /\ \A k \in 1..Len(severity_keys) :
          IsList(Get(Get(data, "issues", JDict(<<>>)), severity_keys[k],
                     JList(<<>>)))
    /\ \A k \in 1..Len(severity_keys) :
        \A i \in 1..Len(IssueList(data, severity_keys[k])) :
            LET issue == IssueList(data, severity_keys[k])[i]
            IN IsDict(issue)
               /\ (Has(issue, "location") => IsStr(Get(issue, "location", JNull)))

(* C2: the payload holds exactly one record for every issue whose location  *)
(* is present and not turned down by the Location Normalizer, none for any  *)
(* other issue, and an issue without a usable location raises no error.     *)
C2_OneRecordPerLocatedIssue ==
    /\ (PayloadBuilt /\ PlainLocations(review_data)) =>
          RecordCount(FileCommentsOf(result)) = LocatedCount(review_data)
    /\ (cmd = "zuul" /\ pc = "done" /\ PlainLocations(review_data)
          /\ ~BadWrapper(raw_data)) => error \in {"", "OSError"}

(* C4: the payload is {zuul: {file_comments: F}} with F a mapping whose     *)
(* values are lists of records, each record having exactly the keys line,   *)
(* message, level in that order, an integer line, a string message and a    *)
(* level among error, warning, info.                                        *)
C4_RecordShape ==
    PayloadBuilt =>
        /\ Keys(result) = <<"zuul">>
        /\ IsDict(Get(result, "zuul", JNull))
        /\ Keys(Get(result, "zuul", JNull)) = <<"file_comments">>
        /\ IsDict(FileCommentsOf(result))
        /\ \A i \in 1..Len(FileCommentsOf(result).v) :
              /\ IsList(FileCommentsOf(result).v[i][2])
              /\ \A j \in 1..Len(FileCommentsOf(result).v[i][2].v) :
                    LET rec == FileCommentsOf(result).v[i][2].v[j]
                    IN /\ IsDict(rec)
                       /\ Keys(rec) = <<"line", "message", "level">>
                       /\ rec.v[1][2].t = "int"
                       /\ rec.v[2][2].t = "str"
                       /\ rec.v[3][2] \in {JStr("error"), JStr("warning"),
                                           JStr("info")}

\* a payload with records under two files
C4_Witness ==
    /\ PayloadBuilt
    /\ Len(FileCommentsOf(result).v) = 2
    /\ RecordCount(FileCommentsOf(result)) = 2

\* strings map_severity_to_level is tried on
SeverityInputs ==
    { "critical", "high", "warning", "suggestion", "CRITICAL", "High",
      "Warning", "SUGGESTION", "warnings", "suggestions", "", "info", "error",
      "blocker", "criticals" }

\* the level each severity key of the document must give its records
ExpectedLevels == <<"error", "error", "warning", "info">>

\* every record the k-th severity list gives has the expected level
LevelsOfSeverity(data, k) ==
    LET r == ExtractSeverity(JDict(<<>>), Get(data, "issues", JDict(<<>>)),
                             severity_keys[k])
    IN \A i \in 1..Len(r.fc.v) :
          \A j \in 1..Len(r.fc.v[i][2].v) :
              Get(r.fc.v[i][2].v[j], "level", JNull) = JStr(ExpectedLevels[k])

(* C5 as stated: critical and high give error, warning gives warning,       *)
(* suggestion gives info and every other string gives info; every record    *)
(* from issues.critical or issues.high has level error, from                *)
(* issues.warnings warning, from issues.suggestions info.                   *)
C5_OtherStringsGiveInfo ==
    /\ pc = "generate" => \A s \in SeverityInputs :
          map_severity_to_level(s) =
              (CASE s \in {"critical", "high"} -> "error"
                 [] s = "warning" -> "warning"
                 [] OTHER -> "info")
    /\ PayloadBuilt => \A k \in 1..4 : LevelsOfSeverity(review_data, k)

(* C5, amended: the severity is matched without regard to case: a string    *)
(* whose lower-case form is critical or high gives error, warning gives     *)
(* warning, and every other string, suggestion included, gives info; the    *)
(* records of each severity list have the level of that severity.           *)
C5_LevelBySeverityIgnoringCase ==
    /\ pc = "generate" => \A s \in SeverityInputs :
          map_severity_to_level(s) =
              (CASE s \in {"critical", "high", "CRITICAL", "High"} -> "error"
                 [] s \in {"warning", "Warning"} -> "warning"
                 [] OTHER -> "info")
    /\ PayloadBuilt => \A k \in 1..4 : LevelsOfSeverity(review_data, k)

\* a payload built from a high issue and a warning, both with records
C5_Witness ==
    /\ PayloadBuilt
    /\ Len(IssueList(review_data, "high")) = 1
    /\ Len(IssueList(review_data, "warnings")) = 1
    /\ Located(IssueList(review_data, "high")[1])
    /\ Located(IssueList(review_data, "warnings")[1])
    /\ RecordCount(FileCommentsOf(result)) = 2

\* the issues of a document in the order they are visited, each with the
\* mapping extract_file_comments builds from it alone
Visits(data) ==
    LET one(k, i) == ExtractIssue(JDict(<<>>),
                                  IssueList(data, severity_keys[k])[i],
                                  (<<"critical", "high", "warning", "suggestion">>)[k]).fc
        of(k) == [i \in 1..Len(IssueList(data, severity_keys[k])) |-> one(k, i)]
    IN of(1) \o of(2) \o of(3) \o of(4)

RECURSIVE RecordsFor(_, _, _)
\* the records, in visiting order, of the visits from the i-th on that fall
\* under path
RecordsFor(visits, path, i) ==
    IF i > Len(visits) THEN <<>>
    ELSE (IF visits[i].v # <<>> /\ visits[i].v[1][1] = path
          THEN visits[i].v[1][2].v
          ELSE <<>>) \o RecordsFor(visits, path, i + 1)

\* the first visit that falls under path
FirstVisit(visits, path) ==
    CHOOSE i \in 1..Len(visits) :
        /\ visits[i].v # <<>> /\ visits[i].v[1][1] = path
        /\ \A j \in 1..(i - 1) : visits[j].v = <<>> \/ visits[j].v[1][1] # path

\* fc lists, for each path, the records in visiting order, and its paths in
\* the order they were first visited
InVisitOrder(fc, visits) ==
    /\ \A i \in 1..Len(visits) :
          visits[i].v # <<>> => Has(fc, visits[i].v[1][1])
    /\ \A a \in 1..Len(fc.v) :
          /\ fc.v[a][2].v = RecordsFor(visits, fc.v[a][1], 1)
          /\ fc.v[a][2].v # <<>>
          /\ \A b \in (a + 1)..Len(fc.v) :
                /\ fc.v[a][1] # fc.v[b][1]
                /\ FirstVisit(visits, fc.v[a][1]) < FirstVisit(visits, fc.v[b][1])

(* C6: each file's list holds its records in the order the issues are       *)
(* visited (critical, high, warnings, suggestions, each in list order), not *)
(* sorted by line, and the files appear in the order they were first met.   *)
C6_VisitOrder ==
    (PayloadBuilt /\ PlainLocations(review_data)) =>
        InVisitOrder(FileCommentsOf(result), Visits(review_data))

\* a payload whose first file lists line 2 before line 1
C6_Witness ==
    /\ PayloadBuilt
    /\ Len(FileCommentsOf(result).v) = 1
    /\ Len(FileCommentsOf(result).v[1][2].v) = 2
    /\ Get(FileCommentsOf(result).v[1][2].v[1], "line", JNull) = JInt(2)
    /\ Get(FileCommentsOf(result).v[1][2].v[2], "line", JNull) = JInt(1)

---------------------------------------------------------------------------
(* Properties of the HTML command *)

\* the run has rendered its document
HtmlBuilt == cmd = "html" /\ (pc = "write" \/ (pc = "done" /\ error \in {"", "OSError"}))

EndsWith(s, t) ==
    Len(s) >= Len(t) /\ SubSeq(s, Len(s) - Len(t) + 1, Len(s)) = t

\* the piece opens an issue card
IsCard(piece) ==
    piece.k = "lit" /\ StartsWith(piece.s, "<details class=\"issue-card ")

CardCount(html) == Cardinality({i \in 1..Len(html) : IsCard(html[i])})

\* the number of issues in the four lists
TotalIssues(data) ==
    SumSeq([k \in 1..Len(severity_keys) |->
              Len(IssueList(data, severity_keys[k]))], 1)

(* C3: the document holds exactly one card per issue of the four lists,     *)
(* the issues that get no CI comment included.                              *)
C3_OneCardPerIssue ==
    HtmlBuilt => CardCount(result) = TotalIssues(review_data)

\* two issues, one without a location and one with a location that does not
\* parse: no CI comment, two cards
C3_Witness ==
    /\ HtmlBuilt
    /\ TotalIssues(review_data) = 2
    /\ \E k \in 1..4 : \E i \in 1..Len(IssueList(review_data, severity_keys[k])) :
          Get(IssueList(review_data, severity_keys[k])[i], "location", JNull)
              = JStr("not-a-location")
    /\ \E k \in 1..4 : \E i \in 1..Len(IssueList(review_data, severity_keys[k])) :
          ~Has(IssueList(review_data, severity_keys[k])[i], "location")
    /\ extract_file_comments(review_data) = [exc |-> "", fc |-> JDict(<<>>)]
    /\ CardCount(result) = 2

Entities == {"&amp;", "&lt;", "&gt;", "&quot;", "&#39;"}

\* s holds a character that HTML reads as markup: a bare <, >, " or ', or
\* an & that starts none of the five entities
RawMarkup(s) ==
    \E i \in 1..Len(s) :
        \/ Char(s, i) \in {"<", ">", "\"", "'"}
        \/ /\ Char(s, i) = "&"
           /\ \A e \in Entities :
                 i + Len(e) - 1 > Len(s) \/ SubSeq(s, i, i + Len(e) - 1) # e

(* C7: no value of the review document reaches the HTML with a bare        *)
(* <, >, ", ' or & in it: every interpolated value is escaped.              *)
C7_AllValuesEscaped ==
    HtmlBuilt =>
        \A i \in 1..Len(result) :
            result[i].k = "val" => ~RawMarkup(result[i].s)

SeverityTitles == <<"Critical Issues", "High Issues", "Warnings", "Suggestions">>

SeverityClasses == <<"critical", "high", "warning", "suggestion">>

\* the places of the header of the k-th severity
HeadersOf(html, k) ==
    {i \in 1..Len(html) :
        /\ html[i].k = "lit"
        /\ StartsWith(html[i].s, "<h2>" \o SeverityTitles[k] \o "</h2>")}

\* the places of the cards of the k-th severity
CardsOfClass(html, k) ==
    {i \in 1..Len(html) :
        /\ html[i].k = "lit"
        /\ StartsWith(html[i].s, "<details class=\"issue-card "
                                 \o SeverityClasses[k] \o "\"")}

(* C8: the document has exactly one header per severity, in the order       *)
(* critical, high, warning, suggestion; a severity whose list is empty or   *)
(* absent has its header followed by "None found." and has no cards.        *)
C8_OneHeaderPerSeverity ==
    HtmlBuilt =>
        /\ \A k \in 1..4 : Cardinality(HeadersOf(result, k)) = 1
        /\ \A k \in 1..3 :
              \A i \in HeadersOf(result, k), j \in HeadersOf(result, k + 1) :
                  i < j
        /\ \A k \in 1..4 :
              Len(IssueList(review_data, severity_keys[k])) = 0 =>
                  /\ \A i \in HeadersOf(result, k) :
                        result[i].s = "<h2>" \o SeverityTitles[k]
                                      \o "</h2><p>None found.</p>"
                  /\ CardsOfClass(result, k) = {}

\* an empty critical list, two high issues, no warnings or suggestions
C8_Witness ==
    /\ HtmlBuilt
    /\ Has(Get(review_data, "issues", JNull), "critical")
    /\ Len(IssueList(review_data, "critical")) = 0
    /\ Len(IssueList(review_data, "high")) = 2
    /\ Cardinality(CardsOfClass(result, 2)) = 2

StatWhat ==
    <<"critical issues", "high issues", "warnings", "suggestions",
      "total findings">>

\* the k-th number the statistics section shows
StatShown(html, k) ==
    html[(CHOOSE i \in 1..Len(html) :
            /\ html[i].k = "lit"
            /\ EndsWith(html[i].s, " " \o StatWhat[k] \o "\">")) + 1].s

(* C9: whenever the statistics section shows five numbers, the total shown  *)
(* is the sum of the critical, high, warnings and suggestions shown, also   *)
(* when the document declares another total or none.                        *)
C9_TotalIsSum ==
    (HtmlBuilt /\ \A k \in 1..5 : AllDigits(StatShown(result, k))) =>
        StrToInt(StatShown(result, 5)) =
            StrToInt(StatShown(result, 1)) + StrToInt(StatShown(result, 2))
            + StrToInt(StatShown(result, 3)) + StrToInt(StatShown(result, 4))

---------------------------------------------------------------------------
(* Properties of the validator command *)

\* validate_schema returned, and the command reported what it said
SchemaReported ==
    /\ cmd = "validate" /\ pc = "done"
    /\ error \in {"", "SchemaValidationFailed"}

\* one element of a file's list, as the schema wants it
WellFormedComment(c) ==
    /\ IsDict(c)
    /\ Has(c, "message")
    /\ IsStr(Get(c, "message", JNull))
    /\ (Has(c, "line") => Get(c, "line", JNull).t = "int")
    /\ (Has(c, "level") =>
          Get(c, "level", JNull) \in {JStr("info"), JStr("warning"), JStr("error")})

\* a payload as the schema wants it
WellFormedPayload(data) ==
    /\ IsDict(data)
    /\ Has(data, "zuul")
    /\ IsDict(Get(data, "zuul", JNull))
    /\ Has(Get(data, "zuul", JNull), "file_comments")
    /\ IsDict(FileCommentsOf(data))
    /\ \A i \in 1..Len(FileCommentsOf(data).v) :
          /\ IsList(FileCommentsOf(data).v[i][2])
          /\ \A j \in 1..Len(FileCommentsOf(data).v[i][2].v) :
                WellFormedComment(FileCommentsOf(data).v[i][2].v[j])

(* C10: validate_schema accepts a payload exactly when zuul is present, it  *)
(* has file_comments, that is a mapping, each of its values is a list, and  *)
(* each element is a mapping with a string message, an integer line if any  *)
(* and a level among info, warning, error if any.                           *)
C10_AcceptsExactlyWellFormed ==
    SchemaReported => (result.ok <=> WellFormedPayload(raw_data))

\* the fields of a record the schema finds fault with; a record that is no
\* mapping has none to name
FailedFields(c) ==
    IF ~IsDict(c) THEN {}
    ELSE (IF ~Has(c, "message") THEN {"message"} ELSE {})
         \cup (IF Has(c, "level") /\ Get(c, "level", JNull) \notin valid_levels
               THEN {"level"} ELSE {})
         \cup (IF Has(c, "line") /\ ~IsInt(Get(c, "line", JNull))
               THEN {"line"} ELSE {})

\* the payload reaches the loop over its files
HasFileLists(data) ==
    /\ IsDict(data)
    /\ IsDict(Get(data, "zuul", JNull))
    /\ IsDict(FileCommentsOf(data))

\* the files whose value is no list: <<file>>
BadLists(data) ==
    {k \in 1..Len(FileCommentsOf(data).v) : ~IsList(FileCommentsOf(data).v[k][2])}

\* the records the schema finds fault with: <<file, place in its list>>
BadRecords(data) ==
    {kj \in (1..Len(FileCommentsOf(data).v)) \X (1..MaxComments + 1) :
        /\ IsList(FileCommentsOf(data).v[kj[1]][2])
        /\ kj[2] <= Len(FileCommentsOf(data).v[kj[1]][2].v)
        /\ (~IsDict(FileCommentsOf(data).v[kj[1]][2].v[kj[2]])
            \/ FailedFields(FileCommentsOf(data).v[kj[1]][2].v[kj[2]]) # {})}

\* the message names the record's place, counted from 0 or from 1
NamesIndex(message, j) ==
    IsSubstring(IntToStr(j - 1), message) \/ IsSubstring(IntToStr(j), message)

\* the message names the file and the place of record kj and, when the record
\* is a mapping, one of its failed fields
LocalizesRecord(message, data, kj) ==
    /\ IsSubstring(FileCommentsOf(data).v[kj[1]][1], message)
    /\ NamesIndex(message, kj[2])
    /\ \/ ~IsDict(FileCommentsOf(data).v[kj[1]][2].v[kj[2]])
       \/ \E f \in FailedFields(FileCommentsOf(data).v[kj[1]][2].v[kj[2]]) :
             IsSubstring(f, message)

\* a rejection owed to a file's list or to one of its records
RejectedForFile ==
    /\ SchemaReported
    /\ ~result.ok
    /\ HasFileLists(raw_data)

(* C11: when validate_schema rejects a payload for a file's comment list or  *)
(* for one of its records, the message names the file path, and for a record *)
(* also the index of the offending record and the field that failed.         *)
C11_RejectionIsLocalized ==
    RejectedForFile =>
        \/ \E k \in BadLists(raw_data) :
              IsSubstring(FileCommentsOf(raw_data).v[k][1], result.message)
        \/ \E kj \in BadRecords(raw_data) :
              LocalizesRecord(result.message, raw_data, kj)


---------------------------------------------------------------------------
(* Properties of the Tolerant Decoder *)

\* the text holds nothing but white space
IsBlank(s) == SkipWs(s, 0) = Len(s)

\* the call was made
DecodeDone == cmd = "decode" /\ pc = "done"

---------------------------------------------------------------------------
(* Properties of the two renderer commands *)

\* the input file holds, and nothing else, a wrapper around a mapping
WrappedFile ==
    /\ file.exists /\ ~file.trailing
    /\ file.value # Absent
    /\ IsDict(file.value)
    /\ Has(file.value, "structured_output")
    /\ IsDict(Get(file.value, "structured_output", JNull))

\* the document inside the wrapper
InnerDoc == Get(file.value, "structured_output", JNull)

\* the HTML command accepts the document and renders it
HtmlRenders(data) ==
    /\ \A i \in 1..Len(required_keys) : Has(data, required_keys[i])
    /\ render_html_template(data).exc = ""

(* C13: extract_review_data gives the value of structured_output when that  *)
(* is a mapping and the decoded mapping itself when the key is absent, and   *)
(* either command, run on a wrapped document, writes what it writes for the  *)
(* document inside the wrapper.                                              *)
C13_WrappedAsBare ==
    /\ (cmd = "zuul" /\ review_data # Absent /\ IsDict(raw_data)) =>
          /\ (Has(raw_data, "structured_output")
                /\ IsDict(Get(raw_data, "structured_output", JNull))) =>
                review_data = Get(raw_data, "structured_output", JNull)
          /\ ~Has(raw_data, "structured_output") => review_data = raw_data
    /\ (cmd = "zuul" /\ WrappedFile /\ pc = "done" /\ error # "OSError"
          /\ generate_zuul_return_data(InnerDoc).exc = "") =>
          emitted = << [to |-> args.output,
                        text |-> json_dumps(
                                   generate_zuul_return_data(InnerDoc).data)] >>
    /\ (cmd = "html" /\ WrappedFile /\ pc = "done" /\ error # "OSError"
          /\ HtmlRenders(InnerDoc)) =>
          emitted = << [to |-> "file",
                        text |-> render_html_template(InnerDoc).html] >>

---------------------------------------------------------------------------
(* More properties of the CI-comment command *)

(* C14: when the decoded mapping has the key structured_output with a value  *)
(* that is no mapping, the run stops at the wrapper-shape check: the outer   *)
(* mapping is never rendered as the review document, no payload is built,    *)
(* validated or emitted, and the run ends in a wrapper-shape error with a    *)
(* non-zero status.                                                          *)
C14_WrapperShapeIsFatal ==
    (cmd = "zuul" /\ BadWrapper(raw_data)) =>
        /\ pc \in {"unwrap", "done"}
        /\ result = Absent
        /\ validated = Absent
        /\ emitted = <<>>
        /\ pc = "done" => (error = "WrapperShapeError" /\ exit_code = 1)

\* a run stopped by a wrapper that holds a string
C14_Witness ==
    /\ cmd = "zuul" /\ pc = "done"
    /\ BadWrapper(raw_data)
    /\ Get(raw_data, "structured_output", JNull) = JStr("refused")
    /\ error = "WrapperShapeError"
    /\ exit_code = 1

---------------------------------------------------------------------------
(* Properties of the Location Normalizer *)

LocationParsed == cmd = "parse_location" /\ pc = "done"

DigitValue ==
    [c \in {"0", "1", "2", "3", "4", "5", "6", "7", "8", "9"} |->
        CASE c = "0" -> 0 [] c = "1" -> 1 [] c = "2" -> 2 [] c = "3" -> 3
          [] c = "4" -> 4 [] c = "5" -> 5 [] c = "6" -> 6 [] c = "7" -> 7
          [] c = "8" -> 8 [] c = "9" -> 9]

\* s[lo..hi] is a decimal integer
IsDecimal(s, lo, hi) ==
    lo <= hi /\ \A i \in lo..hi : Char(s, i) \in DOMAIN DigitValue

RECURSIVE DecimalValue(_, _, _)
\* its value
DecimalValue(s, lo, hi) ==
    IF lo > hi THEN 0
    ELSE 10 * DecimalValue(s, lo, hi - 1) + DigitValue[Char(s, hi)]

\* s is <path>:<line> (e = Len(s)) or <path>:<line>-<end> with its colon at c
\* and <line> ending at e
HasForm(s, c, e) ==
    /\ c > 1
    /\ Char(s, c) = ":"
    /\ \A i \in 1..(c - 1) : Char(s, i) # ":"
    /\ IsDecimal(s, c + 1, e)
    /\ \/ e = Len(s)
       \/ Char(s, e + 1) = "-" /\ IsDecimal(s, e + 2, Len(s))

\* the places <<c, e>> at which s has the form
Forms(s) == {ce \in (1..Len(s)) \X (1..Len(s)) : HasForm(s, ce[1], ce[2])}

(* C15: parse_location gives a path and a line exactly for the strings of    *)
(* the form <path>:<line> or <path>:<line>-<end>, with a non-empty path      *)
(* without colon and decimal <line> and <end>; the line is the value of      *)
(* <line>; every other string gives (None, None), and nothing is raised.     *)
C15_ParsesExactlyTheGrammar ==
    LocationParsed =>
        /\ result.exc = ""
        /\ Forms(args.location) = {} =>
              (result.file_path = JNull /\ result.line_number = JNull)
        /\ \A ce \in Forms(args.location) :
              /\ result.file_path # JNull
              /\ result.line_number
                    = JInt(DecimalValue(args.location, ce[1] + 1, ce[2]))

(* C16: whenever parse_location gives a result, its path is not empty and    *)
(* does not begin with '/', and its line is an integer of at least 1.        *)
C16_RelativePathPositiveLine ==
    (LocationParsed /\ result.file_path # JNull) =>
        /\ IsStr(result.file_path)
        /\ Len(result.file_path.v) > 0
        /\ ~StartsWith(result.file_path.v, "/")
        /\ result.line_number.t = "int"
        /\ result.line_number.v >= 1

---------------------------------------------------------------------------
(* The example of the CI-comment channel *)

ExampleIssue == IssueAt(JStr("x.py:10"))

\* the document holds the example issue under critical and no other issue
IsExample(data) ==
    /\ IssueList(data, "critical") = <<ExampleIssue>>
    /\ \A k \in {"high", "warnings", "suggestions"} : IssueList(data, k) = <<>>

\* the payload holds one record, under x.py, with line 10 and level error
OneExampleRecord(fc) ==
    /\ IsDict(fc)
    /\ Len(fc.v) = 1
    /\ fc.v[1][1] = "x.py"
    /\ IsList(fc.v[1][2])
    /\ Len(fc.v[1][2].v) = 1
    /\ Get(fc.v[1][2].v[1], "line", Absent) = JInt(10)
    /\ Get(fc.v[1][2].v[1], "level", Absent) = JStr("error")
    /\ IsStr(Get(fc.v[1][2].v[1], "message", Absent))

ExampleMessage(fc) == Get(fc.v[1][2].v[1], "message", Absent).v

ExampleRendered == PayloadBuilt /\ IsExample(review_data)

---------------------------------------------------------------------------
(* More properties of the two renderer commands *)

MandatoryKeys == {"context", "statistics", "issues", "summary"}

\* the document lacks a mandatory top-level key
LacksMandatory(data) == IsDict(data) /\ \E k \in MandatoryKeys : ~Has(data, k)

(* C19: a run of either command on a document that lacks a mandatory         *)
(* top-level key ends with a non-zero status and has emitted nothing.        *)
C19_MissingSectionIsFatal ==
    (pc = "done" /\ LacksMandatory(review_data)) =>
        (exit_code # 0 /\ emitted = <<>>)

\* the issues mapping of the document lacks the severity key k
LacksSeverity(data, k) ==
    /\ IsDict(data)
    /\ IsDict(Get(data, "issues", JNull))
    /\ ~Has(Get(data, "issues", JNull), k)

\* the document with the severity key k mapped to the empty list
FillKey(data, k) ==
    Put(data, "issues", Put(Get(data, "issues", JNull), k, JList(<<>>)))

\* generate_zuul_return_data has been called on review_data
ZuulGenerateRan ==
    /\ cmd = "zuul"
    /\ pc \in {"validate", "emit", "done"}
    /\ review_data # Absent
    /\ error # "WrapperShapeError"

\* render_html_template has been called on review_data
HtmlRenderRan ==
    /\ cmd = "html"
    /\ pc \in {"write", "done"}
    /\ IsDict(review_data)
    /\ \A i \in 1..Len(required_keys) : Has(review_data, required_keys[i])

RaisedKinds == {"KeyError", "AttributeError", "TypeError", "ValueError"}

SameAsFilledPayload(r) == r.exc = "" /\ r.data = result

SameAsFilledHtml(r) == r.exc = "" /\ r.html = result

(* C20: for either renderer and each severity key, a document whose issues   *)
(* mapping lacks the key gives what the same document gives with the key     *)
(* mapped to the empty list, and neither raises.                             *)
C20_AbsentKeyIsEmptyList ==
    \A k \in {"critical", "high", "warnings", "suggestions"} :
        LacksSeverity(review_data, k) =>
            /\ ZuulGenerateRan =>
                  /\ error \notin RaisedKinds
                  /\ result.t = "dict"
                  /\ SameAsFilledPayload(
                        generate_zuul_return_data(FillKey(review_data, k)))
            /\ HtmlRenderRan =>
                  /\ error \notin RaisedKinds
                  /\ result # Absent
                  /\ SameAsFilledHtml(
                        render_html_template(FillKey(review_data, k)))

C20_Witness ==
    /\ cmd = "zuul"
    /\ pc = "done"
    /\ emitted # <<>>
    /\ LacksSeverity(review_data, "critical")
    /\ LacksSeverity(review_data, "warnings")
    /\ IssueList(review_data, "high") # <<>>
    /\ RecordCount(FileCommentsOf(result)) = 1

---------------------------------------------------------------------------
(* Properties of normalize_file_path *)

Normalized == cmd = "normalize_file_path" /\ pc = "done"

ExecutionRoots ==
    << "/home/zuul/src/review.opendev.org/", "/home/zuul/src/opendev.org/",
       "/home/zuul/src/" >>

\* p begins with q
Begins(p, q) ==
    Len(q) <= Len(p) /\ \A i \in 1..Len(q) : Char(p, i) = Char(q, i)

\* p begins with the k-th execution root and with none before it
BeginsWithRoot(p, k) ==
    /\ Begins(p, ExecutionRoots[k])
    /\ \A j \in 1..(k - 1) : ~Begins(p, ExecutionRoots[j])

\* p without its first n characters
Without(p, n) == SubSeq(p, n + 1, Len(p))

\* the places of the '/' of r
Slashes(r) == {i \in 1..Len(r) : Char(r, i) = "/"}

\* the second '/' of r stands at j
IsSecondSlash(r, j) ==
    j \in Slashes(r) /\ Cardinality({i \in Slashes(r) : i < j}) = 1

\* r without its first two segments when it has three or more, else r
WithoutTwoSegments(r) ==
    IF Cardinality(Slashes(r)) >= 2
    THEN Without(r, CHOOSE j \in 1..Len(r) : IsSecondSlash(r, j))
    ELSE r

(* C21: for a path that begins with a known execution root, the first root   *)
(* in the order of the list is removed once, and then the next two segments  *)
(* are removed if and only if at least three segments remain; so             *)
(* /home/zuul/src/opendev.org/openstack/nova/nova/compute/manager.py gives   *)
(* nova/compute/manager.py.                                                  *)
C21_RootThenOrgProject ==
    Normalized =>
        /\ \A k \in 1..Len(ExecutionRoots) :
              BeginsWithRoot(args.path, k) =>
                  result = JStr(WithoutTwoSegments(
                                    Without(args.path, Len(ExecutionRoots[k]))))
        /\ args.path
              = "/home/zuul/src/opendev.org/openstack/nova/nova/compute/manager.py"
           => result = JStr("nova/compute/manager.py")

C21_Witness ==
    /\ Normalized
    /\ args.path = "/home/zuul/src/opendev.org/openstack/nova/nova/compute/manager.py"
    /\ result = JStr("nova/compute/manager.py")

\* an absolute path that begins with no execution root
OtherAbsolute(p) ==
    /\ Len(p) > 0 /\ Char(p, 1) = "/"
    /\ \A k \in 1..Len(ExecutionRoots) : ~BeginsWithRoot(p, k)

RECURSIVE WithoutLeadingSlashes(_)
WithoutLeadingSlashes(p) ==
    IF Len(p) > 0 /\ Char(p, 1) = "/" THEN WithoutLeadingSlashes(Without(p, 1))
    ELSE p

(* C22 as stated: for an absolute path that begins with no execution root    *)
(* the leading separator is removed and then the first two segments are      *)
(* removed if and only if at least three segments remain.                    *)
C22_OneSeparatorThenOrgProject ==
    (Normalized /\ OtherAbsolute(args.path)) =>
        result = JStr(WithoutTwoSegments(Without(args.path, 1)))

(* C22 amended: for an absolute path that begins with no execution root all  *)
(* the leading separators are removed and then the first two segments are    *)
(* removed if and only if at least three segments remain: /a/b/c gives c,    *)
(* /a gives a and /a/b gives a/b.                                            *)
C22_SeparatorsThenOrgProject ==
    (Normalized /\ OtherAbsolute(args.path)) =>
        /\ result = JStr(WithoutTwoSegments(WithoutLeadingSlashes(args.path)))
        /\ args.path = "/a/b/c" => result = JStr("c")
        /\ args.path = "/a" => result = JStr("a")
        /\ args.path = "/a/b" => result = JStr("a/b")

C22_Witness ==
    /\ Normalized
    /\ args.path = "//a/b/c.py"
    /\ result = JStr("c.py")

(* C23: a path that does not begin with '/' is returned unchanged, whatever  *)
(* its number of segments, normalizing it again changes nothing, and         *)
(* parse_location gives such a path as it stands:                            *)
(* "roles/ai_code_review/tasks/main.yaml:25" gives that path and line 25.    *)
C23_RelativePathUnchanged ==
    (Normalized /\ (args.path = "" \/ Char(args.path, 1) # "/")) =>
        /\ result = JStr(args.path)
        /\ normalize_file_path(result.v) = result.v
        /\ args.path = "roles/ai_code_review/tasks/main.yaml" =>
              parse_location(JStr(args.path \o ":25"))
                 = [exc |-> "", file_path |-> JStr(args.path),
                    line_number |-> JInt(25)]

C23_Witness ==
    /\ Normalized
    /\ args.path = "roles/ai_code_review/tasks/main.yaml"
    /\ result = JStr("roles/ai_code_review/tasks/main.yaml")

---------------------------------------------------------------------------
(* Properties of format_issue_message *)

MessageDone == cmd = "format_issue_message" /\ pc = "done"

\* the fields of each severity in their order: the key, the text before the
\* value and the text after it
FieldsOf(severity) ==
    CASE severity \in {"critical", "high"} ->
            << <<"risk", "**Risk**: ", "\n">>,
               <<"remediation_priority", "**Priority**: ", "">>,
               <<"why_matters", "**Why This Matters**: ", "\n">>,
               <<"recommendation", "**Recommendation**:\n", "">> >>
      [] severity = "warning" ->
            << <<"impact", "**Impact**: ", "\n">>,
               <<"suggestion", "**Suggestion**:\n", "">> >>
      [] severity = "suggestion" ->
            << <<"benefit", "**Benefit**: ", "\n">>,
               <<"recommendation", "**Recommendation**:\n", "">> >>

RECURSIVE FieldText(_, _, _)
\* the lines of the fields the issue has, from the i-th field of the table on
FieldText(issue, fields, i) ==
    IF i > Len(fields) THEN ""
    ELSE (IF \E j \in 1..Len(issue.v) : issue.v[j][1] = fields[i][1]
          THEN "\n" \o fields[i][2]
               \o issue.v[CHOOSE j \in 1..Len(issue.v) :
                              issue.v[j][1] = fields[i][1]][2].v
               \o fields[i][3]
          ELSE "")
         \o FieldText(issue, fields, i + 1)

\* the two lines every message begins with, for the issues of MessageBases
MessageHead(issue, severity) ==
    (IF IsStr(Get(issue, "description", Absent)) THEN "d0" ELSE "No description")
    \o "\n\n**Severity**: "
    \o (CASE severity = "critical" -> "CRITICAL" [] severity = "high" -> "HIGH"
          [] severity = "warning" -> "WARNING"
          [] severity = "suggestion" -> "SUGGESTION")
    \o " | **Confidence**: "
    \o (CASE Get(issue, "confidence", Absent) = JFloat(95) -> "0.9"
          [] Get(issue, "confidence", Absent) = JInt(1) -> "1.0"
          [] OTHER -> "0.0")
    \o "\n"

\* the keys that are fields of the severity
KeysOf(severity) ==
    {FieldsOf(severity)[i][1] : i \in 1..Len(FieldsOf(severity))}

(* C24: the message is the description, a blank line, the severity and       *)
(* confidence line, a blank line, and then the fields of the severity in     *)
(* their fixed order; a field the issue lacks adds nothing, and a field of   *)
(* another severity is not rendered even when the issue has it.              *)
C24_MessageLayout ==
    MessageDone =>
        /\ error = ""
        /\ result = JStr(MessageHead(args.issue, args.severity)
                         \o FieldText(args.issue, FieldsOf(args.severity), 1))
        /\ \A i \in 1..Len(OptionalFields) :
              (OptionalFields[i][1] \notin KeysOf(args.severity)
               \/ ~Has(args.issue, OptionalFields[i][1]))
                  => ~IsSubstring(OptionalFields[i][2], result.v)

C24_Witness ==
    /\ MessageDone
    /\ args.severity = "warning"
    /\ Has(args.issue, "recommendation")
    /\ Has(args.issue, "risk")
    /\ Has(args.issue, "suggestion")
    /\ ~Has(args.issue, "impact")
    /\ IsSubstring("s1", result.v)

---------------------------------------------------------------------------
(* Properties of escape_html *)

Escaped == cmd = "escape_html" /\ pc = "done"

\* what stands for one character in the escaped text
EntityOf(c) ==
    CASE c = "&" -> "&amp;"
      [] c = "<" -> "&lt;"
      [] c = ">" -> "&gt;"
      [] c = "\"" -> "&quot;"
      [] c = "'" -> "&#39;"
      [] OTHER -> c

RECURSIVE CharByChar(_, _)
\* the text from its i-th character on, each character by its entity
CharByChar(s, i) ==
    IF i > Len(s) THEN "" ELSE EntityOf(Char(s, i)) \o CharByChar(s, i + 1)

(* C25: escape_html(s) is s with each &, <, >, " and ' replaced by &amp;,    *)
(* &lt;, &gt;, &quot; and &#39; and every other character kept in its place; *)
(* the entities are not escaped again, and the result holds no raw <, >, "   *)
(* or '.                                                                     *)
C25_EscapesCharByChar ==
    Escaped =>
        /\ result = JStr(CharByChar(args.text, 1))
        /\ \A i \in 1..Len(result.v) :
              Char(result.v, i) \notin {"<", ">", "\"", "'"}
        /\ args.text = "<script>alert(\"xss\")</script>" =>
              result = JStr("&lt;script&gt;alert(&quot;xss&quot;)&lt;/script&gt;")

C25_Witness ==
    /\ Escaped
    /\ args.text = "Tom & Jerry's <b>\"show\"</b>"
    /\ result = JStr("Tom &amp; Jerry&#39;s &lt;b&gt;&quot;show&quot;&lt;/b&gt;")

---------------------------------------------------------------------------
(* More properties of the validator command *)

\* s ends with q
Ends(s, q) ==
    Len(q) <= Len(s) /\ SubSeq(s, Len(s) - Len(q) + 1, Len(s)) = q

\* the checks made on a record, in the order of the claim
RecordChecks == <<"record", "message", "level", "line">>

\* the record c fails the check named
FailsCheck(c, check) ==
    CASE check = "record" -> c.t # "dict"
      [] check = "message" ->
            c.t = "dict" /\ \A n \in 1..Len(c.v) : c.v[n][1] # "message"
      [] check = "level" ->
            /\ c.t = "dict"
            /\ \E n \in 1..Len(c.v) :
                  /\ c.v[n][1] = "level"
                  /\ c.v[n][2] \notin {JStr("info"), JStr("warning"), JStr("error")}
      [] check = "line" ->
            /\ c.t = "dict"
            /\ \E n \in 1..Len(c.v) :
                  c.v[n][1] = "line" /\ c.v[n][2].t \notin {"int", "bool"}

\* the violations of a file_comments mapping: <<file, record, check>>, with
\* record and check 0 for a value that is no list
Violations(fc) ==
    {<<a, 0, 0>> : a \in {b \in 1..Len(fc.v) : fc.v[b][2].t # "list"}}
    \cup UNION { UNION { {<<a, j, k>> : k \in {n \in 1..Len(RecordChecks) :
                                FailsCheck(fc.v[a][2].v[j], RecordChecks[n])}} :
                         j \in 1..Len(fc.v[a][2].v) } :
                 a \in {b \in 1..Len(fc.v) : fc.v[b][2].t = "list"} }

\* v comes before w in the order of the checks
Before(v, w) ==
    \/ v[1] < w[1]
    \/ v[1] = w[1] /\ v[2] < w[2]
    \/ v[1] = w[1] /\ v[2] = w[2] /\ v[3] < w[3]

FirstViolation(fc) ==
    CHOOSE v \in Violations(fc) : \A w \in Violations(fc) \ {v} : Before(v, w)

\* the message reports the violation v of fc
Reports(message, fc, v) ==
    CASE v[2] = 0 ->
            message = "Comments for " \o fc.v[v[1]][1] \o " must be a list"
      [] v[3] = 1 ->
            /\ Begins(message, "Comment ")
            /\ Ends(message, " in " \o fc.v[v[1]][1] \o " must be a dict")
      [] v[3] = 2 ->
            /\ Begins(message, "Comment ")
            /\ Ends(message, " in " \o fc.v[v[1]][1]
                             \o " missing required message field")
      [] v[3] = 3 ->
            /\ Begins(message, "Invalid level ")
            /\ Ends(message, " in " \o fc.v[v[1]][1]
                             \o ", must be info/warning/error")
      [] v[3] = 4 ->
            Begins(message, "line must be integer in " \o fc.v[v[1]][1]
                            \o ", got ")

\* what the claim has validate_schema say of a mapping data
FirstReport(data, ok, message) ==
    IF \A n \in 1..Len(data.v) : data.v[n][1] # "zuul"
    THEN ~ok /\ message = "Missing required key: zuul"
    ELSE IF ~Has(Get(data, "zuul", JNull), "file_comments")
    THEN ~ok /\ message = "Missing required key: zuul.file_comments"
    ELSE IF FileCommentsOf(data).t # "dict"
    THEN ~ok /\ Begins(message, "file_comments must be a dict, got ")
    ELSE IF Violations(FileCommentsOf(data)) # {}
    THEN ~ok /\ Reports(message, FileCommentsOf(data),
                        FirstViolation(FileCommentsOf(data)))
    ELSE ok /\ message = "Schema validation passed"

\* a mapping whose zuul value, if any, is a mapping
MappingPayload(data) ==
    IsDict(data) /\ (Has(data, "zuul") => IsDict(Get(data, "zuul", JNull)))

(* C26: validate_schema reports the first violation in the order of its      *)
(* checks and no other: the missing zuul key, else the missing               *)
(* file_comments key, else the type of file_comments, else, file by file and *)
(* record by record, the list type, the record type, the missing message,    *)
(* the level and the line; a payload with no violation gives                 *)
(* (True, 'Schema validation passed').                                       *)
C26_FirstViolationReported ==
    (SchemaReported /\ MappingPayload(raw_data)) =>
        FirstReport(raw_data, result.ok, result.message)

C26_Witness ==
    /\ SchemaReported
    /\ MappingPayload(raw_data)
    /\ Has(raw_data, "zuul")
    /\ Has(Get(raw_data, "zuul", JNull), "file_comments")
    /\ IsDict(FileCommentsOf(raw_data))
    /\ Cardinality(Violations(FileCommentsOf(raw_data))) >= 3
    /\ FirstViolation(FileCommentsOf(raw_data)) = <<1, 2, 2>>
    /\ result.message = "Comment 1 in a.py missing required message field"

\* validate_schema has been called on the decoded payload
SchemaCalled == cmd = "validate" /\ pc = "done" /\ raw_data # Absent

(* C29: validate_schema returns an (ok, message) pair for every decoded      *)
(* payload and never raises, whether or not the payload and its zuul value   *)
(* are mappings.                                                             *)
C29_ValidatorNeverRaises ==
    SchemaCalled =>
        /\ error \in {"", "SchemaValidationFailed"}
        /\ result # Absent
        /\ result.ok \in BOOLEAN

\* the in-pipeline validator returns the verdict ok for data
PipelineVerdict(r, ok) == r.exc = "" /\ r.ok = ok

(* C30: the standalone validate_schema accepts a payload exactly when the    *)
(* in-pipeline validate_zuul_schema accepts it, also for records without a   *)
(* line, with a message that is no string, or with a boolean line.           *)
C30_ValidatorsAgree ==
    SchemaReported => PipelineVerdict(validate_zuul_schema(raw_data), result.ok)

---------------------------------------------------------------------------
(* Properties of the two renderers called on one document *)

\* what the renderer named gives when it alone is called on the document
Alone(name, document) ==
    IF name = "html" THEN render_html_template(document)
    ELSE extract_file_comments(document)

---------------------------------------------------------------------------
(* The payload and the two validators *)

\* the standalone validator accepts
StandaloneAccepts(r) == r.exc = "" /\ r.ok

\* the in-pipeline validator accepts
PipelineAccepts(r) == r.exc = "" /\ r.ok

\* no list of the mapping is keyed by the empty path, and no record has line 0
NoEmptyPathNoLineZero(fc) ==
    \A a \in 1..Len(fc.v) :
        /\ fc.v[a][1] # ""
        /\ \A j \in 1..Len(fc.v[a][2].v) :
              Get(fc.v[a][2].v[j], "line", Absent) # JInt(0)

\* some issue of the document has the location given
HasIssueAt(data, location) ==
    \E k \in {"critical", "high", "warnings", "suggestions"} :
        \E n \in 1..Len(IssueList(data, k)) :
            Get(IssueList(data, k)[n], "location", Absent) = location

(* C28: every payload generate_zuul_return_data returns is accepted by the   *)
(* in-pipeline validator and by the standalone validator; no list is keyed   *)
(* by the empty path and no record has line 0, an issue whose parsed path is *)
(* empty or whose line is 0 being skipped.                                   *)
C28_PayloadAlwaysValid ==
    PayloadBuilt =>
        /\ PipelineAccepts(validate_zuul_schema(result))
        /\ StandaloneAccepts(validate_schema(result))
        /\ NoEmptyPathNoLineZero(FileCommentsOf(result))
        /\ (validated # Absent => validated.ok)
        /\ (HasIssueAt(review_data, JStr("a.py:0"))
            \/ HasIssueAt(review_data, JStr("/:3")))
              => RecordCount(FileCommentsOf(result))
                    < Len(IssueList(review_data, "critical"))
                      + Len(IssueList(review_data, "high"))
                      + Len(IssueList(review_data, "warnings"))
                      + Len(IssueList(review_data, "suggestions"))

C28_Witness ==
    /\ PayloadBuilt
    /\ pc = "done"
    /\ emitted # <<>>
    /\ validated.ok
    /\ HasIssueAt(review_data, JStr("a.py:0"))
    /\ HasIssueAt(review_data, JStr("a.py:1"))
    /\ RecordCount(FileCommentsOf(result)) = 1

===========================================================================
